---- MODULE Spec2Model ----
(***************************************************************************)
(* The OAuth2 HTTP filter (source/extensions/filters/http/oauth2/filter.cc) *)
(* as a state machine: one filter instance per request, the IdP client as  *)
(* an asynchronous collaborator delivering one completion callback.        *)
(*                                                                         *)
(* Strings are sequences of atoms <<tag, key, msg>>:                       *)
(*   <<"ch", s, <<>>>>       the literal text s (a chunk of plain bytes)   *)
(*   <<"b64", k, m>>         Base64 of the raw HMAC-SHA256 of m under k     *)
(*   <<"b64hex", k, m>>      Base64 of the hex of that HMAC                 *)
(*   <<"b64url", "", t>>     Base64Url of the text t                        *)
(*   <<"jwt", "", d>>        a JWT whose exp claim has the decimal digits d *)
(* HMAC-SHA256 is modelled as collision free and the encodings injective.  *)
(***************************************************************************)
EXTENDS Integers, Sequences, FiniteSets, TLC

\* ------------------------------------------------------------------ bounds
MaxTime == 3
TicksPerSecond == 2

\* ------------------------------------------------------------------ strings
C(s) == <<"ch", s, <<>>>>
Str(s) == <<C(s)>>
EMPTY_STRING == <<>>

QUOTE == C("\"")
BSLASH == C("\\")
NL == C("\n")
DOT == C(".")

HmacPayloadSeparator == <<NL>>
UnauthorizedBodyMessage == Str("OAuth flow failed.")
queryParamsError == Str("error")
queryParamsCode == Str("code")
queryParamsState == Str("state")
stateParamsUrl == Str("url")
stateParamsCsrfToken == Str("csrf_token")
REDIRECT_RACE == "oauth.race_redirect"
REDIRECT_LOGGED_IN == "oauth.logged_in"
REDIRECT_FOR_CREDENTIALS == "oauth.missing_credentials"
SIGN_OUT == "oauth.sign_out"

\* index of the first occurrence of atom a in s, 0 when there is none
RECURSIVE FindFrom(_, _, _)
FindFrom(s, a, i) ==
  IF i > Len(s) THEN 0
  ELSE IF s[i] = a THEN i
  ELSE FindFrom(s, a, i + 1)

Find(s, a) == FindFrom(s, a, 1)

\* absl::StrJoin(parts, sep)
RECURSIVE StrJoin(_, _)
StrJoin(parts, sep) ==
  IF Len(parts) = 0 THEN <<>>
  ELSE IF Len(parts) = 1 THEN parts[1]
  ELSE parts[1] \o sep \o StrJoin(Tail(parts), sep)

\* the pieces of s between occurrences of the atom sep
RECURSIVE Split(_, _)
Split(s, sep) ==
  LET i == Find(s, sep) IN
    IF i = 0 THEN <<s>>
    ELSE <<SubSeq(s, 1, i - 1)>> \o Split(SubSeq(s, i + 1, Len(s)), sep)

\* std::to_string of a non-negative integer
DigitChars == <<"0", "1", "2", "3", "4", "5", "6", "7", "8", "9">>

RECURSIVE to_string(_)
to_string(n) ==
  IF n < 10 THEN Str(DigitChars[n + 1])
  ELSE to_string(n \div 10) \o Str(DigitChars[(n % 10) + 1])

IsDigit(a) == a[1] = "ch" /\ \E d \in 1..10 : a[2] = DigitChars[d]
DigitVal(a) == (CHOOSE d \in 1..10 : a[2] = DigitChars[d]) - 1

\* absl::SimpleAtoi into uint64_t: -1 stands for "returns false"
RECURSIVE AtoiAcc(_, _)
AtoiAcc(s, acc) ==
  IF Len(s) = 0 THEN acc
  ELSE IF ~IsDigit(s[1]) THEN -1
  ELSE AtoiAcc(Tail(s), acc * 10 + DigitVal(s[1]))

SimpleAtoi(s) == IF Len(s) = 0 THEN -1 ELSE AtoiAcc(s, 0)

\* ------------------------------------------------------------------ crypto
encodeHmacHexBase64(secret, domain, expires, token, id_token, refresh_token) ==
  LET hmac_payload == StrJoin(<<domain, expires, token, id_token, refresh_token>>,
                              HmacPayloadSeparator)
  IN <<(<<"b64hex", secret, hmac_payload>>)>>

generateHmacBase64(secret, message) == <<(<<"b64", secret, message>>)>>

encodeHmacBase64(secret, domain, expires, token, id_token, refresh_token) ==
  LET hmac_payload == StrJoin(<<domain, expires, token, id_token, refresh_token>>,
                              HmacPayloadSeparator)
  IN generateHmacBase64(secret, hmac_payload)

encodeHmac(secret, domain, expires, token, id_token, refresh_token) ==
  encodeHmacBase64(secret, domain, expires, token, id_token, refresh_token)

\* faulty variant: the nonce is signed with an empty key
generateCsrfToken_unkeyed(hmac_secret, random_string) ==
  random_string \o <<DOT>> \o generateHmacBase64("", random_string)

\* random_string is Hex::uint64ToHex(random.random())
generateCsrfToken(hmac_secret, random_string) ==
  random_string \o <<DOT>> \o generateHmacBase64(hmac_secret, random_string)

\* faulty variant: the HMAC inside the token is not looked at
validateCsrfTokenHmac_unchecked(hmac_secret, csrf_token) == TRUE

validateCsrfTokenHmac(hmac_secret, csrf_token) ==
  LET pos == Find(csrf_token, DOT) IN
    IF pos = 0 THEN FALSE
    ELSE LET token == SubSeq(csrf_token, 1, pos - 1)
             hmac == SubSeq(csrf_token, pos + 1, Len(csrf_token))
         IN generateHmacBase64(hmac_secret, token) = hmac

\* ------------------------------------------------------------------ JSON and Base64Url
NUL == C("NUL")
IsControl(a) == a = NL \/ a = NUL
NeedsEscape(a) == a = QUOTE \/ a = BSLASH \/ IsControl(a)

EscapeAtom(a) ==
  IF a = QUOTE THEN <<BSLASH, QUOTE>>
  ELSE IF a = BSLASH THEN <<BSLASH, BSLASH>>
  ELSE IF a = NL THEN <<BSLASH, C("n")>>
  ELSE IF a = NUL THEN <<BSLASH, C("0")>>
  ELSE <<a>>

\* the text Json::sanitize returns a view of
RECURSIVE JsonSanitize(_)
JsonSanitize(s) ==
  IF Len(s) = 0 THEN <<>> ELSE EscapeAtom(s[1]) \o JsonSanitize(Tail(s))

\* Json::sanitize leaves `buffer` alone and returns its argument when nothing is escaped
SanitizeUsesBuffer(s) == \E i \in 1..Len(s) : NeedsEscape(s[i])

Base64UrlEncode(text) == <<(<<"b64url", "", text>>)>>

\* Base64Url::decode: the empty string for anything that is not Base64Url
Base64UrlDecode(s) ==
  IF Len(s) = 1 /\ s[1][1] = "b64url" THEN s[1][3] ELSE EMPTY_STRING

StateJson(sanitized_url, sanitized_csrf_token) ==
  <<C("{"), QUOTE, C("url"), QUOTE, C(":"), QUOTE>> \o sanitized_url
    \o <<QUOTE, C(","), QUOTE, C("csrf_token"), QUOTE, C(":"), QUOTE>>
    \o sanitized_csrf_token \o <<QUOTE, C("}")>>

\* What the view `sanitized_url` can read once the second Json::sanitize call has
\* rewritten the shared `buffer`: the storage is reused (the view reads the new
\* content, its terminator and the stale tail), or it was reallocated and the view
\* dangles (the freed bytes are still there, or they are not).
StaleUrlViews(su, sc) ==
  LET mem == [i \in 1..Len(su) |->
                IF i <= Len(sc) THEN sc[i]
                ELSE IF i = Len(sc) + 1 THEN NUL
                ELSE su[i]]
  IN {mem, su, Str("?garbage?")}

\* encodeState: the set of strings the call can return
encodeState(original_request_url, csrf_token) ==
  LET su == JsonSanitize(original_request_url)
      sc == JsonSanitize(csrf_token)
      views == IF SanitizeUsesBuffer(original_request_url) /\ SanitizeUsesBuffer(csrf_token)
               THEN StaleUrlViews(su, sc)
               ELSE {su}
  IN {Base64UrlEncode(StateJson(v, sc)) : v \in views}

\* a JSON string starting after its opening quote at s[i]
RECURSIVE ReadJsonString(_, _, _)
ReadJsonString(s, i, acc) ==
  IF i > Len(s) THEN [ok |-> FALSE, val |-> <<>>, next |-> i]
  ELSE IF s[i] = QUOTE THEN [ok |-> TRUE, val |-> acc, next |-> i + 1]
  ELSE IF s[i] = BSLASH THEN
    IF i + 1 > Len(s) THEN [ok |-> FALSE, val |-> <<>>, next |-> i]
    ELSE IF s[i + 1] = QUOTE THEN ReadJsonString(s, i + 2, Append(acc, QUOTE))
    ELSE IF s[i + 1] = BSLASH THEN ReadJsonString(s, i + 2, Append(acc, BSLASH))
    ELSE IF s[i + 1] = C("n") THEN ReadJsonString(s, i + 2, Append(acc, NL))
    ELSE IF s[i + 1] = C("0") THEN ReadJsonString(s, i + 2, Append(acc, NUL))
    ELSE [ok |-> FALSE, val |-> <<>>, next |-> i]
  ELSE IF IsControl(s[i]) THEN [ok |-> FALSE, val |-> <<>>, next |-> i]
  ELSE ReadJsonString(s, i + 1, Append(acc, s[i]))

JsonStructural == {C("{"), C("}"), C(":"), C(","), QUOTE, BSLASH}

\* the members of a JSON object, s[i] being the first atom of a member
RECURSIVE ReadJsonMembers(_, _, _)
ReadJsonMembers(s, i, fields) ==
  LET bad == [ok |-> FALSE, fields |-> <<>>] IN
  IF i > Len(s) \/ s[i] # QUOTE THEN bad
  ELSE LET k == ReadJsonString(s, i + 1, <<>>) IN
    IF ~k.ok \/ k.next + 1 > Len(s) \/ s[k.next] # C(":") THEN bad
    ELSE LET j == k.next + 1
             v == IF s[j] = QUOTE THEN ReadJsonString(s, j + 1, <<>>)
                  ELSE IF s[j] \in JsonStructural \/ IsControl(s[j])
                       THEN [ok |-> FALSE, val |-> <<>>, next |-> j]
                  ELSE [ok |-> TRUE, val |-> <<>>, next |-> j + 1]
             all == Append(fields, <<k.val, v.val>>)
         IN IF ~v.ok \/ v.next > Len(s) THEN bad
            ELSE IF s[v.next] = C("}") THEN
              IF v.next = Len(s) THEN [ok |-> TRUE, fields |-> all] ELSE bad
            ELSE IF s[v.next] = C(",") THEN ReadJsonMembers(s, v.next + 1, all)
            ELSE bad

\* MessageUtil::loadFromJsonNoThrow into a ProtobufWkt::Struct: the fields as
\* <<name, string_value>> pairs (string_value is empty for a value that is no string)
loadFromJsonNoThrow(s) ==
  IF Len(s) < 2 \/ s[1] # C("{") THEN [ok |-> FALSE, fields |-> <<>>]
  ELSE IF s[2] = C("}") THEN [ok |-> Len(s) = 2, fields |-> <<>>]
  ELSE ReadJsonMembers(s, 2, <<>>)

FieldsContain(fields, name) == \E i \in 1..Len(fields) : fields[i][1] = name

\* the last member of that name, as a JSON object keeps one value per key
FieldsAt(fields, name) ==
  LET last == CHOOSE i \in 1..Len(fields) :
                /\ fields[i][1] = name
                /\ \A j \in (i + 1)..Len(fields) : fields[j][1] # name
  IN fields[last][2]

\* ------------------------------------------------------------------ cookies, query strings, URLs
\* The Cookie header is a sequence of <<name, value>> pairs, a parsed cookie map a
\* function from the names present to their values.
EmptyMap == [n \in {} |-> EMPTY_STRING]

MapPut(m, k, v) == [n \in DOMAIN m \cup {k} |-> IF n = k THEN v ELSE m[n]]

\* m after insert_or_assign of each <<key, value>> of pairs (their keys differ)
MapPutAll(m, pairs) ==
  [n \in DOMAIN m \cup {pairs[i][1] : i \in 1..Len(pairs)} |->
     IF \E i \in 1..Len(pairs) : pairs[i][1] = n
     THEN pairs[CHOOSE i \in 1..Len(pairs) : pairs[i][1] = n][2]
     ELSE m[n]]

\* Http::Utility::parseCookies(headers, key_filter): of several cookies of one name the
\* last one stays
parseCookies(cookie_header, keys) ==
  [n \in {cookie_header[i][1] : i \in 1..Len(cookie_header)} \cap keys |->
     cookie_header[CHOOSE i \in 1..Len(cookie_header) :
                     /\ cookie_header[i][1] = n
                     /\ \A j \in (i + 1)..Len(cookie_header) : cookie_header[j][1] # n][2]]

findValue(map, key) == IF key \in DOMAIN map THEN map[key] ELSE EMPTY_STRING

\* Http::Utility::QueryParamsMulti::parseQueryString: <<key, value>> pairs in order
QueryPair(part) ==
  LET eq == Find(part, C("=")) IN
    IF eq = 0 THEN <<part, EMPTY_STRING>>
    ELSE <<SubSeq(part, 1, eq - 1), SubSeq(part, eq + 1, Len(part))>>

parseQueryString(url) ==
  LET q == Find(url, C("?")) IN
    IF q = 0 \/ q = Len(url) THEN <<>>
    ELSE LET parts == Split(SubSeq(url, q + 1, Len(url)), C("&"))
         IN [i \in 1..Len(parts) |-> QueryPair(parts[i])]

HasValue(params, key) == \E i \in 1..Len(params) : params[i][1] = key

getFirstValue(params, key) ==
  params[CHOOSE i \in 1..Len(params) :
           params[i][1] = key /\ \A j \in 1..(i - 1) : params[j][1] # key][2]

\* Http::PathUtil::removeQueryAndFragment
removeQueryAndFragment(path) ==
  LET q == Find(path, C("?")) IN IF q = 0 THEN path ELSE SubSeq(path, 1, q - 1)

\* Http::Utility::Url::initialize(url, false): scheme "://" host [path-and-query]
UrlInitialize(url) ==
  /\ Len(url) >= 3
  /\ url[1] \in {C("http"), C("https")}
  /\ url[2] = C("://")
  /\ url[3][1] = "ch"
  /\ ~NeedsEscape(url[3])

pathAndQueryParams(url) ==
  IF ~UrlInitialize(url) THEN EMPTY_STRING
  ELSE IF Len(url) = 3 THEN Str("/")
  ELSE SubSeq(url, 4, Len(url))

urlEncodeQueryParameter(s) == <<(<<"urlenc", "", s>>)>>

\* ------------------------------------------------------------------ configuration
cookie_names ==
  [oauth_hmac_ |-> "OauthHMAC", oauth_expires_ |-> "OauthExpires",
   bearer_token_ |-> "BearerToken", id_token_ |-> "IdToken",
   refresh_token_ |-> "RefreshToken", oauth_nonce_ |-> "OauthNonce"]

HostName == Str("app.test")
CookieDomain == Str("test")
RedirectPath == Str("/_oauth")
SignoutPath == Str("/signout")
AuthorizationEndpoint == <<C("https"), C("://"), C("idp.test"), C("/authorize")>>
ClientId == Str("client")

\* config_->redirectPathMatcher().match(path), config_->signoutPath().match(path)
redirectPathMatcher(path) == removeQueryAndFragment(path) = RedirectPath
signoutPath(path) == removeQueryAndFragment(path) = SignoutPath

\* the redirect_uri template %REQ(x-forwarded-proto)%://%REQ(:authority)%/_oauth
formatRedirectUri(headers) ==
  <<C(headers.scheme), C("://")>> \o headers.host \o RedirectPath

\* buildAutorizationQueryParams, in the key order of QueryParamsMulti
authorizationQueryParams ==
  <<(<<Str("client_id"), ClientId>>),
    (<<Str("response_type"), Str("code")>>),
    (<<Str("scope"), urlEncodeQueryParameter(Str("user"))>>)>>

\* QueryParamsMulti::overwrite keeps the keys sorted: redirect_uri after client_id,
\* state last
RECURSIVE queryToString(_)
queryToString(params) ==
  IF Len(params) = 0 THEN <<>>
  ELSE params[1][1] \o <<C("=")>> \o params[1][2]
         \o (IF Len(params) = 1 THEN <<>> ELSE <<C("&")>> \o queryToString(Tail(params)))

AllFilterConfigs ==
  [preserve_authorization_header_ : BOOLEAN,
   forward_bearer_token_ : BOOLEAN,
   use_refresh_token_ : BOOLEAN,
   disable_access_token_set_cookie_ : BOOLEAN,
   disable_id_token_set_cookie_ : BOOLEAN,
   disable_refresh_token_set_cookie_ : BOOLEAN,
   cookie_domain_ : {EMPTY_STRING, CookieDomain},
   default_refresh_token_expires_in_ : {3},
   encoded_resource_query_params_ : {<<C("&"), C("resource"), C("=")>>
                                        \o urlEncodeQueryParameter(Str("https://api.test"))},
   bearer_token_same_site_ : {"DISABLED"},
   hmac_same_site_ : {"DISABLED"},
   expires_same_site_ : {"DISABLED"},
   id_token_same_site_ : {"DISABLED"},
   refresh_token_same_site_ : {"LAX"},
   nonce_same_site_ : {"STRICT"}]

\* the configurations explored: at most one of the disable_*_set_cookie flags set
FilterConfigs ==
  {c \in AllFilterConfigs :
     Cardinality({n \in {"a", "i", "r"} :
                    \/ n = "a" /\ c.disable_access_token_set_cookie_
                    \/ n = "i" /\ c.disable_id_token_set_cookie_
                    \/ n = "r" /\ c.disable_refresh_token_set_cookie_}) <= 1}

getSameSiteString(same_site) ==
  IF same_site = "STRICT" THEN ";SameSite=Strict"
  ELSE IF same_site = "LAX" THEN ";SameSite=Lax"
  ELSE IF same_site = "NONE" THEN ";SameSite=None"
  ELSE ""

\* ------------------------------------------------------------------ state
VARIABLES
  config,      \* the shared FilterConfig, immutable after construction
  secret,      \* what the secret reader returns for the HMAC secret
  now,         \* the time source, in ticks (TicksPerSecond to the second)
  phase,       \* where the current request is: idle, paused_exchange, paused_refresh,
               \* forwarded, replied, encoded
  headers,     \* the request headers of the stream, as the filter chain sees them
  request,     \* the request headers as the client sent them
  filter,      \* the OAuth2Filter instance's members
  validator,   \* the OAuth2CookieValidator's members
  status,      \* what decodeHeaders returned
  responses,   \* the responses the filter sent downstream itself
  upstream_set_cookie, \* the Set-Cookie headers added to the upstream's response
  idp_calls,   \* the calls made on the OAuth2Client
  continued,   \* the number of continueDecoding() calls
  stats,       \* the filter's counters
  stats0,      \* the counters when the request arrived
  trace,       \* what the calls of this request returned (see NewTrace)
  decoded_at,  \* the time at which decodeHeaders ran
  previous,    \* what the user agent's previous request was and got (see NoPrevious)
  codec        \* a state parameter on its way through encodeState and back (see NoCodec)

\* the variables of a stream
stream_vars == <<config, secret, now, phase, headers, request, filter, validator, status,
                 responses, upstream_set_cookie, idp_calls, continued, stats, stats0,
                 trace, decoded_at, previous>>

vars == <<config, secret, now, phase, headers, request, filter, validator, status,
          responses, upstream_set_cookie, idp_calls, continued, stats, stats0, trace,
          decoded_at, previous, codec>>

NewFilter ==
  [host_ |-> EMPTY_STRING, request_headers_ |-> FALSE,
   access_token_ |-> EMPTY_STRING, id_token_ |-> EMPTY_STRING,
   refresh_token_ |-> EMPTY_STRING, new_expires_ |-> EMPTY_STRING,
   expires_in_ |-> EMPTY_STRING, expires_id_token_in_ |-> EMPTY_STRING,
   expires_refresh_token_in_ |-> EMPTY_STRING,
   original_request_url_ |-> EMPTY_STRING, auth_code_ |-> EMPTY_STRING,
   was_refresh_token_flow_ |-> FALSE]

NewValidator ==
  [expires_ |-> EMPTY_STRING, token_ |-> EMPTY_STRING, id_token_ |-> EMPTY_STRING,
   refresh_token_ |-> EMPTY_STRING, hmac_ |-> EMPTY_STRING, host_ |-> EMPTY_STRING,
   secret_ |-> ""]

\* what the request's run has shown so far: what isValid and validateOAuthCallback
\* returned, and which completion the IdP client delivered with which answer
NewTrace ==
  [is_valid |-> "unset", callback |-> "unset", completion |-> "none", answer |-> <<>>]

ZeroStats ==
  [oauth_passthrough |-> 0, oauth_success |-> 0, oauth_unauthorized_rq |-> 0,
   oauth_failure |-> 0, oauth_refreshtoken_success |-> 0,
   oauth_refreshtoken_failure |-> 0]

\* the mutable state a handler works on
World ==
  [headers |-> headers, filter |-> filter, validator |-> validator, status |-> status,
   responses |-> responses, upstream_set_cookie |-> upstream_set_cookie,
   idp_calls |-> idp_calls, continued |-> continued, stats |-> stats, trace |-> trace]

Commit(w) ==
  /\ headers' = w.headers
  /\ filter' = w.filter
  /\ validator' = w.validator
  /\ status' = w.status
  /\ responses' = w.responses
  /\ upstream_set_cookie' = w.upstream_set_cookie
  /\ idp_calls' = w.idp_calls
  /\ continued' = w.continued
  /\ stats' = w.stats
  /\ trace' = w.trace

\* ------------------------------------------------------------------ OAuth2CookieValidator
SessionCookieNames ==
  {cookie_names.oauth_expires_, cookie_names.bearer_token_, cookie_names.oauth_hmac_,
   cookie_names.id_token_, cookie_names.refresh_token_}

setParams(v, hdrs, sec) ==
  LET cookies == parseCookies(hdrs.cookie, SessionCookieNames) IN
    [expires_ |-> findValue(cookies, cookie_names.oauth_expires_),
     token_ |-> findValue(cookies, cookie_names.bearer_token_),
     id_token_ |-> findValue(cookies, cookie_names.id_token_),
     refresh_token_ |-> findValue(cookies, cookie_names.refresh_token_),
     hmac_ |-> findValue(cookies, cookie_names.oauth_hmac_),
     host_ |-> hdrs.host,
     secret_ |-> sec]

\* faulty variant: the refresh token is made use of only when the HMAC cookie verifies
canUpdateTokenByRefreshToken_hmacGated(v) ==
  /\ v.refresh_token_ # EMPTY_STRING
  /\ encodeHmacBase64(v.secret_, v.host_, v.expires_, v.token_, v.id_token_,
                      v.refresh_token_) = v.hmac_

\* faulty variant: a refresh token is never made use of
canUpdateTokenByRefreshToken_never(v) == FALSE

canUpdateTokenByRefreshToken(v) == v.refresh_token_ # EMPTY_STRING

\* faulty variant: the older encoding of the HMAC is no longer accepted
hmacIsValid_base64Only(v, cookie_domain_) ==
  LET cookie_domain == IF cookie_domain_ # EMPTY_STRING THEN cookie_domain_ ELSE v.host_ IN
    encodeHmacBase64(v.secret_, cookie_domain, v.expires_, v.token_, v.id_token_,
                     v.refresh_token_) = v.hmac_

hmacIsValid(v, cookie_domain_) ==
  LET cookie_domain == IF cookie_domain_ # EMPTY_STRING THEN cookie_domain_ ELSE v.host_ IN
    \/ encodeHmacBase64(v.secret_, cookie_domain, v.expires_, v.token_, v.id_token_,
                        v.refresh_token_) = v.hmac_
    \/ encodeHmacHexBase64(v.secret_, cookie_domain, v.expires_, v.token_, v.id_token_,
                           v.refresh_token_) = v.hmac_

\* faulty variant: a session expiring at this very second still counts
timestampIsValid_notBefore(v, t) ==
  LET expires == SimpleAtoi(v.expires_) IN
    IF expires = -1 THEN FALSE ELSE expires * TicksPerSecond >= t

\* std::chrono::seconds(expires) > current_epoch
timestampIsValid(v, t) ==
  LET expires == SimpleAtoi(v.expires_) IN
    IF expires = -1 THEN FALSE ELSE expires * TicksPerSecond > t

\* faulty variant: the expiry is not looked at
isValid_hmacOnly(v, cookie_domain_, t) == hmacIsValid(v, cookie_domain_)

isValid(v, cookie_domain_, t) == hmacIsValid(v, cookie_domain_) /\ timestampIsValid(v, t)

\* ------------------------------------------------------------------ OAuth2Filter helpers
Inc(w, counter) == [w EXCEPT !.stats[counter] = @ + 1]

\* faulty variant: the Authorization header is left as it is
setBearerToken_unchanged(hdrs, token) == hdrs

setBearerToken(hdrs, token) == [hdrs EXCEPT !.authorization = <<Str("Bearer ") \o token>>]

Response(code, location, set_cookie, details, body) ==
  [code |-> code, location |-> location, set_cookie |-> set_cookie,
   details |-> details, body |-> body]

\* faulty variant: the 401 is sent without counting the failure
sendUnauthorizedResponse_uncounted(w) ==
  [w EXCEPT
     !.responses = Append(@, Response(401, EMPTY_STRING, <<>>, "", UnauthorizedBodyMessage))]

sendUnauthorizedResponse(w) ==
  [Inc(w, "oauth_failure") EXCEPT
     !.responses = Append(@, Response(401, EMPTY_STRING, <<>>, "", UnauthorizedBodyMessage))]

\* one Set-Cookie header: name=value followed by the tail
SetCookie(name, value, domain, max_age, same_site) ==
  [name |-> name, value |-> value, domain |-> domain, path |-> "/",
   max_age |-> max_age, expires |-> "", flags |-> ";secure;HttpOnly",
   same_site |-> same_site]

\* CookieDeleteFormatString followed by the optional domain
DeleteCookie(name, domain) ==
  [name |-> name, value |-> Str("deleted"), domain |-> domain, path |-> "/",
   max_age |-> EMPTY_STRING, expires |-> "Thu, 01 Jan 1970 00:00:00 GMT", flags |-> "",
   same_site |-> ""]

\* faulty variant: the bearer cookie is forwarded whatever forward_bearer_token says
canSkipOAuth_alwaysBearer(w, cfg, sec, t) ==
  LET v == setParams(w.validator, w.headers, sec)
      w1 == [w EXCEPT !.validator = v]
  IN IF isValid(v, cfg.cookie_domain_, t)
     THEN LET w2 == [Inc(w1, "oauth_success") EXCEPT !.trace.is_valid = "true"] IN
            [ret |-> TRUE,
             w |-> IF v.token_ # EMPTY_STRING
                   THEN [w2 EXCEPT !.headers = setBearerToken(@, v.token_)]
                   ELSE w2]
     ELSE [ret |-> FALSE, w |-> [w1 EXCEPT !.trace.is_valid = "false"]]

\* canSkipOAuth: what it returns and the state it leaves
canSkipOAuth(w, cfg, sec, t) ==
  LET v == setParams(w.validator, w.headers, sec)
      w1 == [w EXCEPT !.validator = v]
  IN IF isValid(v, cfg.cookie_domain_, t)
     THEN LET w2 == [Inc(w1, "oauth_success") EXCEPT !.trace.is_valid = "true"] IN
            [ret |-> TRUE,
             w |-> IF cfg.forward_bearer_token_ /\ v.token_ # EMPTY_STRING
                   THEN [w2 EXCEPT !.headers = setBearerToken(@, v.token_)]
                   ELSE w2]
     ELSE [ret |-> FALSE, w |-> [w1 EXCEPT !.trace.is_valid = "false"]]

\* faulty variant: the deny-redirect matchers are not consulted
canRedirectToOAuthServer_always(hdrs) == TRUE

canRedirectToOAuthServer(hdrs) == ~hdrs.deny

\* faulty variant: the cookie is not compared with the token of the state
validateCsrfToken_hmacOnly(hdrs, csrf_token, sec) ==
  LET csrf_token_cookie == parseCookies(hdrs.cookie, {cookie_names.oauth_nonce_}) IN
    /\ cookie_names.oauth_nonce_ \in DOMAIN csrf_token_cookie
    /\ validateCsrfTokenHmac(sec, csrf_token)

validateCsrfToken(hdrs, csrf_token, sec) ==
  LET csrf_token_cookie == parseCookies(hdrs.cookie, {cookie_names.oauth_nonce_}) IN
    /\ cookie_names.oauth_nonce_ \in DOMAIN csrf_token_cookie
    /\ csrf_token_cookie[cookie_names.oauth_nonce_] = csrf_token
    /\ validateCsrfTokenHmac(sec, csrf_token)

CallbackInvalid == [is_valid_ |-> FALSE, auth_code_ |-> EMPTY_STRING,
                    original_request_url_ |-> EMPTY_STRING]

validateOAuthCallback(hdrs, path_str, sec) ==
  LET query_parameters == parseQueryString(path_str) IN
  IF HasValue(query_parameters, queryParamsError) THEN CallbackInvalid
  ELSE IF ~HasValue(query_parameters, queryParamsCode)
          \/ ~HasValue(query_parameters, queryParamsState) THEN CallbackInvalid
  ELSE LET codeVal == getFirstValue(query_parameters, queryParamsCode)
           stateVal == getFirstValue(query_parameters, queryParamsState)
           state == Base64UrlDecode(stateVal)
           message == loadFromJsonNoThrow(state)
       IN IF ~message.ok THEN CallbackInvalid
          ELSE IF ~FieldsContain(message.fields, stateParamsUrl)
                  \/ ~FieldsContain(message.fields, stateParamsCsrfToken)
               THEN CallbackInvalid
          ELSE LET csrf_token == FieldsAt(message.fields, stateParamsCsrfToken)
                   original_request_url == FieldsAt(message.fields, stateParamsUrl)
               IN IF ~validateCsrfToken(hdrs, csrf_token, sec) THEN CallbackInvalid
                  ELSE IF ~UrlInitialize(original_request_url) THEN CallbackInvalid
                  ELSE [is_valid_ |-> TRUE, auth_code_ |-> codeVal,
                        original_request_url_ |-> original_request_url]

\* the decoding of the state parameter in validateOAuthCallback: Base64Url decode, JSON
\* parse, the fields url and csrf_token
decodeState(stateVal) ==
  LET state == Base64UrlDecode(stateVal)
      message == loadFromJsonNoThrow(state)
  IN IF ~message.ok THEN [ok |-> FALSE, url |-> EMPTY_STRING, csrf_token |-> EMPTY_STRING]
     ELSE IF ~FieldsContain(message.fields, stateParamsUrl)
             \/ ~FieldsContain(message.fields, stateParamsCsrfToken)
          THEN [ok |-> FALSE, url |-> EMPTY_STRING, csrf_token |-> EMPTY_STRING]
     ELSE [ok |-> TRUE, url |-> FieldsAt(message.fields, stateParamsUrl),
           csrf_token |-> FieldsAt(message.fields, stateParamsCsrfToken)]

\* redirectToOAuthServer, "First, check if the CSRF token cookie exists"
csrfTokenCookieExists(hdrs) ==
  cookie_names.oauth_nonce_ \in DOMAIN parseCookies(hdrs.cookie, {cookie_names.oauth_nonce_})

\* redirectToOAuthServer: the cookie's token, or a generated one
csrfTokenFor(hdrs, sec, random_string) ==
  IF csrfTokenCookieExists(hdrs)
  THEN parseCookies(hdrs.cookie, {cookie_names.oauth_nonce_})[cookie_names.oauth_nonce_]
  ELSE generateCsrfToken(sec, random_string)

\* faulty variant: the cookie is set again although the request carries one
csrfSetCookie_always(cfg, csrf_token, csrf_token_cookie_exists) ==
  <<SetCookie(cookie_names.oauth_nonce_, csrf_token, cfg.cookie_domain_,
              to_string(10 * 60), getSameSiteString(cfg.nonce_same_site_))>>

\* faulty variant: the nonce cookie takes the SameSite of the refresh-token cookie
csrfSetCookie_refreshSameSite(cfg, csrf_token, csrf_token_cookie_exists) ==
  IF ~csrf_token_cookie_exists
  THEN <<SetCookie(cookie_names.oauth_nonce_, csrf_token, cfg.cookie_domain_,
                   to_string(10 * 60), getSameSiteString(cfg.refresh_token_same_site_))>>
  ELSE <<>>

\* redirectToOAuthServer, "Set the CSRF token cookie if it does not exist"
csrfSetCookie(cfg, csrf_token, csrf_token_cookie_exists) ==
  IF ~csrf_token_cookie_exists
  THEN <<SetCookie(cookie_names.oauth_nonce_, csrf_token, cfg.cookie_domain_,
                   to_string(10 * 60), getSameSiteString(cfg.nonce_same_site_))>>
  ELSE <<>>

\* redirectToOAuthServer: the set of outcomes (encodeState has several on undefined
\* behaviour); random_string is the hex of the next value of the random generator
redirectToOAuthServer(w, cfg, sec, random_string) ==
  LET hdrs == w.headers
      scheme == IF hdrs.scheme = "http" THEN "http" ELSE "https"
      base_path == <<C(scheme), C("://")>> \o w.filter.host_
      original_url == base_path \o hdrs.path
      csrf_token_cookie_exists == csrfTokenCookieExists(hdrs)
      csrf_token == csrfTokenFor(hdrs, sec, random_string)
      set_cookie == csrfSetCookie(cfg, csrf_token, csrf_token_cookie_exists)
      redirect_uri == formatRedirectUri(hdrs)
      escaped_redirect_uri == urlEncodeQueryParameter(redirect_uri)
  IN IF csrf_token_cookie_exists /\ ~validateCsrfTokenHmac(sec, csrf_token)
     THEN {sendUnauthorizedResponse(w)}
     ELSE {LET query_params ==
                 <<authorizationQueryParams[1],
                   (<<Str("redirect_uri"), escaped_redirect_uri>>),
                   authorizationQueryParams[2],
                   authorizationQueryParams[3],
                   (<<queryParamsState, state>>)>>
               new_url == AuthorizationEndpoint \o <<C("?")>> \o queryToString(query_params)
               location == new_url \o cfg.encoded_resource_query_params_
           IN [Inc(w, "oauth_unauthorized_rq") EXCEPT
                 !.responses = Append(@, Response(302, location, set_cookie,
                                                  REDIRECT_FOR_CREDENTIALS, EMPTY_STRING))]
           : state \in encodeState(original_url, csrf_token)}

signOutUser(w, cfg) ==
  LET new_path == <<C(w.headers.scheme), C("://")>> \o w.filter.host_ \o Str("/")
      cookie_domain == cfg.cookie_domain_
      set_cookie == <<DeleteCookie(cookie_names.oauth_hmac_, cookie_domain),
                      DeleteCookie(cookie_names.bearer_token_, cookie_domain),
                      DeleteCookie(cookie_names.id_token_, cookie_domain),
                      DeleteCookie(cookie_names.refresh_token_, cookie_domain),
                      DeleteCookie(cookie_names.oauth_nonce_, cookie_domain)>>
  IN [w EXCEPT !.responses = Append(@, Response(302, new_path, set_cookie, SIGN_OUT,
                                                EMPTY_STRING)),
               !.status = "StopIteration"]

\* ::google::jwt_verify::Jwt::parseFromString and its exp_: -1 when the token is no JWT
JwtExp(token) ==
  IF Len(token) = 1 /\ token[1][1] = "jwt" THEN SimpleAtoi(token[1][3]) ELSE -1

\* time_point_cast<seconds>(systemTime()).time_since_epoch()
NowSeconds(t) == t \div TicksPerSecond

getExpiresTimeForRefreshToken(refresh_token, expires_in, cfg, t) ==
  IF cfg.use_refresh_token_
  THEN IF JwtExp(refresh_token) # -1 /\ JwtExp(refresh_token) # 0
       THEN IF NowSeconds(t) < JwtExp(refresh_token)
            THEN to_string(JwtExp(refresh_token) - NowSeconds(t))
            ELSE Str("0")
       ELSE to_string(cfg.default_refresh_token_expires_in_)
  ELSE to_string(expires_in)

getExpiresTimeForIdToken(id_token, expires_in, t) ==
  IF id_token # EMPTY_STRING
  THEN IF JwtExp(id_token) # -1 /\ JwtExp(id_token) # 0
       THEN IF NowSeconds(t) < JwtExp(id_token)
            THEN to_string(JwtExp(id_token) - NowSeconds(t))
            ELSE Str("0")
       ELSE to_string(expires_in)
  ELSE to_string(expires_in)

\* faulty variant: the tokens are stored whatever the disable_*_set_cookie flags say
updateTokens_ignoresFlags(f, cfg, t, access_token, id_token, refresh_token, expires_in) ==
  [f EXCEPT
     !.access_token_ = access_token,
     !.id_token_ = id_token,
     !.refresh_token_ = refresh_token,
     !.expires_in_ = to_string(expires_in),
     !.expires_refresh_token_in_ =
        getExpiresTimeForRefreshToken(refresh_token, expires_in, cfg, t),
     !.expires_id_token_in_ = getExpiresTimeForIdToken(id_token, expires_in, t),
     !.new_expires_ = to_string((t + expires_in * TicksPerSecond) \div TicksPerSecond)]

updateTokens(f, cfg, t, access_token, id_token, refresh_token, expires_in) ==
  [f EXCEPT
     !.access_token_ = IF ~cfg.disable_access_token_set_cookie_ THEN access_token ELSE @,
     !.id_token_ = IF ~cfg.disable_id_token_set_cookie_ THEN id_token ELSE @,
     !.refresh_token_ = IF ~cfg.disable_refresh_token_set_cookie_ THEN refresh_token ELSE @,
     !.expires_in_ = to_string(expires_in),
     !.expires_refresh_token_in_ =
        getExpiresTimeForRefreshToken(refresh_token, expires_in, cfg, t),
     !.expires_id_token_in_ = getExpiresTimeForIdToken(id_token, expires_in, t),
     !.new_expires_ = to_string((t + expires_in * TicksPerSecond) \div TicksPerSecond)]

getEncodedToken(f, cfg, sec) ==
  LET domain == IF cfg.cookie_domain_ # EMPTY_STRING THEN cfg.cookie_domain_ ELSE f.host_ IN
    encodeHmac(sec, domain, f.new_expires_, f.access_token_, f.id_token_, f.refresh_token_)

\* BuildCookieTail(cookie_type): <<Max-Age, SameSite>> (the domain is the configured one)
\* faulty variant: every cookie takes the lifetime of the access token
BuildCookieTail_sharedLifetime(cookie_type, f, cfg) ==
  IF cookie_type = 1 THEN <<f.expires_in_, getSameSiteString(cfg.bearer_token_same_site_)>>
  ELSE IF cookie_type = 2 THEN <<f.expires_in_, getSameSiteString(cfg.hmac_same_site_)>>
  ELSE IF cookie_type = 3 THEN <<f.expires_in_, getSameSiteString(cfg.expires_same_site_)>>
  ELSE IF cookie_type = 4 THEN <<f.expires_in_, getSameSiteString(cfg.id_token_same_site_)>>
  ELSE <<f.expires_in_, getSameSiteString(cfg.refresh_token_same_site_)>>

BuildCookieTail(cookie_type, f, cfg) ==
  IF cookie_type = 1 THEN <<f.expires_in_, getSameSiteString(cfg.bearer_token_same_site_)>>
  ELSE IF cookie_type = 2 THEN <<f.expires_in_, getSameSiteString(cfg.hmac_same_site_)>>
  ELSE IF cookie_type = 3 THEN <<f.expires_in_, getSameSiteString(cfg.expires_same_site_)>>
  ELSE IF cookie_type = 4
       THEN <<f.expires_id_token_in_, getSameSiteString(cfg.id_token_same_site_)>>
  ELSE IF cookie_type = 5
       THEN <<f.expires_refresh_token_in_, getSameSiteString(cfg.refresh_token_same_site_)>>
  ELSE <<f.expires_in_, getSameSiteString(cfg.refresh_token_same_site_)>>

TailCookie(name, value, cookie_type, f, cfg) ==
  SetCookie(name, value, cfg.cookie_domain_, BuildCookieTail(cookie_type, f, cfg)[1],
            BuildCookieTail(cookie_type, f, cfg)[2])

\* faulty variant: the expires cookie is not set
addResponseCookies_noExpires(f, cfg, encoded_token) ==
  <<TailCookie(cookie_names.oauth_hmac_, encoded_token, 2, f, cfg)>>
  \o (IF f.access_token_ # EMPTY_STRING
      THEN <<TailCookie(cookie_names.bearer_token_, f.access_token_, 1, f, cfg)>>
      ELSE <<>>)
  \o (IF f.id_token_ # EMPTY_STRING
      THEN <<TailCookie(cookie_names.id_token_, f.id_token_, 4, f, cfg)>>
      ELSE <<>>)
  \o (IF f.refresh_token_ # EMPTY_STRING
      THEN <<TailCookie(cookie_names.refresh_token_, f.refresh_token_, 5, f, cfg)>>
      ELSE <<>>)

\* addResponseCookies: the Set-Cookie headers it appends
addResponseCookies(f, cfg, encoded_token) ==
  <<TailCookie(cookie_names.oauth_hmac_, encoded_token, 2, f, cfg),
    TailCookie(cookie_names.oauth_expires_, f.new_expires_, 3, f, cfg)>>
  \o (IF f.access_token_ # EMPTY_STRING
      THEN <<TailCookie(cookie_names.bearer_token_, f.access_token_, 1, f, cfg)>>
      ELSE <<>>)
  \o (IF f.id_token_ # EMPTY_STRING
      THEN <<TailCookie(cookie_names.id_token_, f.id_token_, 4, f, cfg)>>
      ELSE <<>>)
  \o (IF f.refresh_token_ # EMPTY_STRING
      THEN <<TailCookie(cookie_names.refresh_token_, f.refresh_token_, 5, f, cfg)>>
      ELSE <<>>)

finishGetAccessTokenFlow(w, cfg, sec) ==
  LET set_cookie == addResponseCookies(w.filter, cfg, getEncodedToken(w.filter, cfg, sec)) IN
    [Inc(w, "oauth_success") EXCEPT
       !.responses = Append(@, Response(302, w.filter.original_request_url_, set_cookie,
                                        REDIRECT_LOGGED_IN, EMPTY_STRING))]

\* the order in which the rewritten Cookie header lists the cookie map
CookieOrder ==
  <<cookie_names.oauth_hmac_, cookie_names.oauth_expires_, cookie_names.bearer_token_,
    cookie_names.id_token_, cookie_names.refresh_token_, cookie_names.oauth_nonce_,
    "other">>

AllCookieNames == {CookieOrder[i] : i \in 1..Len(CookieOrder)}

RECURSIVE formatCookies(_, _)
formatCookies(map, order) ==
  IF Len(order) = 0 THEN <<>>
  ELSE (IF order[1] \in DOMAIN map THEN <<(<<order[1], map[order[1]]>>)>> ELSE <<>>)
         \o formatCookies(map, Tail(order))

finishRefreshAccessTokenFlow(w, cfg, sec) ==
  LET f == w.filter
      cookies == parseCookies(w.headers.cookie, AllCookieNames)
      \* the insert_or_assign calls, in their order
      assigned ==
        <<(<<cookie_names.oauth_hmac_, getEncodedToken(f, cfg, sec)>>),
          (<<cookie_names.oauth_expires_, f.new_expires_>>)>>
        \o (IF f.access_token_ # EMPTY_STRING
            THEN <<(<<cookie_names.bearer_token_, f.access_token_>>)>> ELSE <<>>)
        \o (IF f.id_token_ # EMPTY_STRING
            THEN <<(<<cookie_names.id_token_, f.id_token_>>)>> ELSE <<>>)
        \o (IF f.refresh_token_ # EMPTY_STRING
            THEN <<(<<cookie_names.refresh_token_, f.refresh_token_>>)>> ELSE <<>>)
      h1 == [w.headers EXCEPT
               !.cookie = formatCookies(MapPutAll(cookies, assigned), CookieOrder)]
      h2 == IF cfg.forward_bearer_token_ /\ f.access_token_ # EMPTY_STRING
            THEN setBearerToken(h1, f.access_token_) ELSE h1
  IN [Inc(Inc(w, "oauth_refreshtoken_success"), "oauth_success") EXCEPT
        !.headers = h2,
        !.filter.was_refresh_token_flow_ = TRUE,
        !.continued = @ + 1]

\* ------------------------------------------------------------------ the handlers
Returns(w, s) == [w EXCEPT !.status = s]

IdpCall(op, arg, redirect_uri) == [op |-> op, arg |-> arg, redirect_uri |-> redirect_uri]

TraceCallback(w, result) ==
  [w EXCEPT !.trace.callback = IF result.is_valid_ THEN "valid" ELSE "invalid"]

\* faulty variant: the exchange is started before the code is recorded
startTokenExchange_noCode(w, result) ==
  [w EXCEPT !.filter.original_request_url_ = result.original_request_url_,
            !.idp_calls = Append(@, IdpCall("asyncGetAccessToken", w.filter.auth_code_,
                                            formatRedirectUri(w.headers)))]

\* decodeHeaders, once the callback is validated: record it and start the exchange
startTokenExchange(w, result) ==
  [w EXCEPT !.filter.original_request_url_ = result.original_request_url_,
            !.filter.auth_code_ = result.auth_code_,
            !.idp_calls = Append(@, IdpCall("asyncGetAccessToken", result.auth_code_,
                                            formatRedirectUri(w.headers)))]

\* faulty variant: a valid callback starts the token exchange although the session is valid
callbackWithValidSession_exchanges(w, result) ==
  IF ~result.is_valid_ THEN sendUnauthorizedResponse(w)
  ELSE startTokenExchange(w, result)

\* faulty variant: the race redirect is sent without the callback being valid
callbackWithValidSession_noValidation(w, result) ==
  IF redirectPathMatcher(pathAndQueryParams(result.original_request_url_))
  THEN sendUnauthorizedResponse(w)
  ELSE [w EXCEPT !.responses = Append(@, Response(302, result.original_request_url_, <<>>,
                                                  REDIRECT_RACE, EMPTY_STRING))]

\* faulty variant: the redirect is sent although it leads back to the callback path
callbackWithValidSession_noLoopGuard(w, result) ==
  IF ~result.is_valid_
  THEN sendUnauthorizedResponse(w)
  ELSE [w EXCEPT !.responses = Append(@, Response(302, result.original_request_url_, <<>>,
                                                  REDIRECT_RACE, EMPTY_STRING))]

\* decodeHeaders, "if (canSkipOAuth(headers))" on the callback path: the answer to the
\* callback of a request that already has a valid session
callbackWithValidSession(w, result) ==
  IF ~result.is_valid_
  THEN sendUnauthorizedResponse(w)
  ELSE IF redirectPathMatcher(pathAndQueryParams(result.original_request_url_))
  THEN sendUnauthorizedResponse(w)
  ELSE [w EXCEPT !.responses = Append(@, Response(302, result.original_request_url_, <<>>,
                                                  REDIRECT_RACE, EMPTY_STRING))]

\* decodeHeaders from "The following 2 headers are guaranteed" on: the set of
\* states it can leave
decodeSanitized(w, cfg, sec, t, random_string) ==
  LET w2 == [w EXCEPT !.filter.host_ = w.headers.host]
      path_str == w.headers.path
  IN
  IF signoutPath(path_str) THEN {signOutUser(w2, cfg)}
  ELSE UNION {
    IF skip.ret
    THEN
      IF redirectPathMatcher(path_str)
      THEN
        LET result == validateOAuthCallback(skip.w.headers, path_str, sec) IN
          {Returns(callbackWithValidSession(TraceCallback(skip.w, result), result),
                   "StopIteration")}
      ELSE {Returns(skip.w, "Continue")}
    ELSE
      LET w3 == [skip.w EXCEPT !.filter.request_headers_ = TRUE] IN
      IF ~redirectPathMatcher(path_str)
      THEN
        IF cfg.use_refresh_token_ /\ canUpdateTokenByRefreshToken(skip.w.validator)
        THEN {Returns([w3 EXCEPT !.idp_calls =
                         Append(@, IdpCall("asyncRefreshAccessToken",
                                           skip.w.validator.refresh_token_, EMPTY_STRING))],
                      "StopAllIterationAndWatermark")}
        ELSE IF canRedirectToOAuthServer(skip.w.headers)
        THEN {Returns(x, "StopIteration") :
                x \in redirectToOAuthServer(w3, cfg, sec, random_string)}
        ELSE {Returns(sendUnauthorizedResponse(w3), "StopIteration")}
      ELSE
        LET result == validateOAuthCallback(skip.w.headers, path_str, sec)
            w4 == TraceCallback(w3, result)
        IN IF ~result.is_valid_
           THEN {Returns(sendUnauthorizedResponse(w4), "StopIteration")}
           ELSE {Returns(startTokenExchange(w4, result), "StopAllIterationAndBuffer")}
    : skip \in {canSkipOAuth(w2, cfg, sec, t)}}

\* faulty variant: Authorization is sanitized before the pass-through matchers run
decodeHeaders_sanitizeFirst(w, cfg, sec, t, random_string) ==
  LET w1 == IF ~cfg.preserve_authorization_header_
            THEN [w EXCEPT !.headers.authorization = <<>>]
            ELSE w
  IN IF w.headers.pass
     THEN {Returns(Inc(w1, "oauth_passthrough"), "Continue")}
     ELSE decodeSanitized(w1, cfg, sec, t, random_string)

\* faulty variant: Authorization is never sanitized
decodeHeaders_keepAuthorization(w, cfg, sec, t, random_string) ==
  IF w.headers.pass
  THEN {Returns(Inc(w, "oauth_passthrough"), "Continue")}
  ELSE decodeSanitized(w, cfg, sec, t, random_string)

\* decodeHeaders: the set of states it can leave
decodeHeaders(w, cfg, sec, t, random_string) ==
  IF w.headers.pass
  THEN {Returns(Inc(w, "oauth_passthrough"), "Continue")}
  ELSE decodeSanitized(IF ~cfg.preserve_authorization_header_
                       THEN [w EXCEPT !.headers.authorization = <<>>]
                       ELSE w,
                       cfg, sec, t, random_string)

\* faulty variant: the cookies are added whether or not a refresh completed
encodeHeaders_unconditional(w, cfg, sec) ==
  [w EXCEPT !.upstream_set_cookie =
               @ \o addResponseCookies(w.filter, cfg, getEncodedToken(w.filter, cfg, sec)),
            !.filter.was_refresh_token_flow_ = FALSE]

\* encodeHeaders on the upstream's response
encodeHeaders(w, cfg, sec) ==
  IF w.filter.was_refresh_token_flow_
  THEN [w EXCEPT !.upstream_set_cookie =
                    @ \o addResponseCookies(w.filter, cfg, getEncodedToken(w.filter, cfg, sec)),
                 !.filter.was_refresh_token_flow_ = FALSE]
  ELSE w

\* faulty variant: the tokens are received and the request is left as it is
onGetAccessTokenSuccess_silent(w, cfg, sec, t, access_code, id_token, refresh_token, expires_in) == w

onGetAccessTokenSuccess(w, cfg, sec, t, access_code, id_token, refresh_token, expires_in) ==
  finishGetAccessTokenFlow(
    [w EXCEPT !.filter = updateTokens(@, cfg, t, access_code, id_token, refresh_token,
                                      expires_in)],
    cfg, sec)

onRefreshAccessTokenSuccess(w, cfg, sec, t, access_code, id_token, refresh_token, expires_in) ==
  finishRefreshAccessTokenFlow(
    [w EXCEPT !.filter = updateTokens(@, cfg, t, access_code, id_token, refresh_token,
                                      expires_in)],
    cfg, sec)

\* faulty variant: the deny-redirect matchers are not asked after a failed refresh
onRefreshAccessTokenFailure_noDenyCheck(w, cfg, sec, random_string) ==
  redirectToOAuthServer(Inc(w, "oauth_refreshtoken_failure"), cfg, sec, random_string)

onRefreshAccessTokenFailure(w, cfg, sec, random_string) ==
  LET w1 == Inc(w, "oauth_refreshtoken_failure") IN
    IF canRedirectToOAuthServer(w1.headers)
    THEN redirectToOAuthServer(w1, cfg, sec, random_string)
    ELSE {sendUnauthorizedResponse(w1)}

\* ------------------------------------------------------------------ the environment
OldSecret == "s0"
CurrentSecret == "s1"

\* Hex::uint64ToHex of the values the random generator can return
Nonces == {Str("00000000000000a1"), Str("00000000000000b2")}

Jwt(exp) == <<(<<"jwt", "", to_string(exp)>>)>>

\* what the IdP can answer: <<access_token, id_token, refresh_token>> and expires_in
IdpTokens ==
  {<<Str("A2"), Str("I2"), Str("R2")>>,
   <<Str("A2"), EMPTY_STRING, EMPTY_STRING>>,
   <<EMPTY_STRING, EMPTY_STRING, EMPTY_STRING>>,
   <<Str("A2"), Jwt(2), Jwt(1)>>}

IdpExpiresIn == {0, 1}

\* ---- the requests a client can send
ClientAuthorization == Str("Basic client-supplied")

Req(path, cookie, scheme, authorization, pass, deny) ==
  [host |-> HostName, path |-> path, scheme |-> scheme, cookie |-> cookie,
   authorization |-> authorization, pass |-> pass, deny |-> deny]

Pair(name, value) == IF value = EMPTY_STRING THEN <<>> ELSE <<(<<name, value>>)>>

\* the session cookies of a user agent: tok is <<bearer, id, refresh>>
SessionCookie(tok, expires, hmac) ==
  Pair(cookie_names.oauth_hmac_, hmac) \o Pair(cookie_names.oauth_expires_, expires)
    \o Pair(cookie_names.bearer_token_, tok[1]) \o Pair(cookie_names.id_token_, tok[2])
    \o Pair(cookie_names.refresh_token_, tok[3])

NonceCookie(value) == Pair(cookie_names.oauth_nonce_, value)

TokenTriples ==
  {<<Str("A"), Str("I"), Str("R")>>,
   <<Str("A"), EMPTY_STRING, EMPTY_STRING>>,
   <<EMPTY_STRING, Str("I"), EMPTY_STRING>>}

ExpiresValues == {EMPTY_STRING, Str("soon"), to_string(1), to_string(2)}

\* the HMAC cookies a user agent may hold for these cookies: none, issued under the
\* current secret for the host or for the cookie domain in either encoding, issued
\* under the previous secret, or issued for another expiry
HmacValues(tok, expires) ==
  {EMPTY_STRING,
   encodeHmacBase64(CurrentSecret, HostName, expires, tok[1], tok[2], tok[3]),
   encodeHmacBase64(CurrentSecret, CookieDomain, expires, tok[1], tok[2], tok[3]),
   encodeHmacHexBase64(CurrentSecret, HostName, expires, tok[1], tok[2], tok[3]),
   encodeHmacHexBase64(CurrentSecret, CookieDomain, expires, tok[1], tok[2], tok[3]),
   encodeHmacBase64(OldSecret, HostName, expires, tok[1], tok[2], tok[3]),
   encodeHmacBase64(CurrentSecret, HostName, to_string(1), tok[1], tok[2], tok[3])}

\* every expiry and HMAC cookie around an access token alone, and the issued and
\* stale HMACs around the other token sets
SessionCookies ==
  UNION {{SessionCookie(<<Str("A"), EMPTY_STRING, EMPTY_STRING>>, e, h) :
            h \in HmacValues(<<Str("A"), EMPTY_STRING, EMPTY_STRING>>, e)} :
           e \in ExpiresValues}
  \cup
  UNION {{SessionCookie(tok, e, encodeHmacBase64(k, d, e, tok[1], tok[2], tok[3])) :
            k \in {CurrentSecret, OldSecret}, d \in {HostName, CookieDomain}} :
           tok \in TokenTriples, e \in {to_string(1), to_string(2)}}
  \cup
  \* around a refresh token: without the expires cookie, without the HMAC cookie,
  \* without both, and with the HMAC in the older encoding
  {SessionCookie(<<Str("A"), Str("I"), Str("R")>>, e, h) :
     e \in {EMPTY_STRING, to_string(2)},
     h \in {EMPTY_STRING,
            encodeHmacHexBase64(CurrentSecret, HostName, to_string(2), Str("A"), Str("I"),
                                Str("R"))}}

AllTokens == <<Str("A"), Str("I"), Str("R")>>

\* a session issued for `domain` under the current secret, expiring at second `expires`
IssuedSession(domain, expires) ==
  SessionCookie(AllTokens, to_string(expires),
                encodeHmacBase64(CurrentSecret, domain, to_string(expires),
                                 AllTokens[1], AllTokens[2], AllTokens[3]))

Nonce1 == Str("00000000000000a1")
Nonce2 == Str("00000000000000b2")

NonceValues ==
  {EMPTY_STRING, generateCsrfToken(CurrentSecret, Nonce1),
   generateCsrfToken(CurrentSecret, Nonce2), generateCsrfToken(OldSecret, Nonce1),
   Str("no-dot-in-here")}

AppPath == Str("/app")
QuotedPath == <<C("/say"), QUOTE, C("hi"), QUOTE>>
UrlOf(path) == <<C("https"), C("://")>> \o HostName \o path

OnlyState(url, csrf_token) == CHOOSE s \in encodeState(url, csrf_token) : TRUE

CodeAndState(state) ==
  <<C("code"), C("="), C("AUTH"), C("&"), C("state"), C("=")>> \o state

GoodToken == generateCsrfToken(CurrentSecret, Nonce1)
GoodState == OnlyState(UrlOf(AppPath), GoodToken)

\* the callback requests: <<query string, nonce cookie>>
CallbackInputs ==
  {<<CodeAndState(GoodState), GoodToken>>,
   <<CodeAndState(GoodState), EMPTY_STRING>>,
   <<CodeAndState(GoodState), generateCsrfToken(CurrentSecret, Nonce2)>>,
   <<CodeAndState(OnlyState(UrlOf(AppPath), generateCsrfToken(OldSecret, Nonce1))),
     generateCsrfToken(OldSecret, Nonce1)>>,
   <<CodeAndState(OnlyState(UrlOf(RedirectPath \o <<C("?"), C("again")>>), GoodToken)),
     GoodToken>>,
   <<CodeAndState(OnlyState(UrlOf(QuotedPath), GoodToken)), GoodToken>>,
   <<CodeAndState(OnlyState(Str("not a url"), GoodToken)), GoodToken>>,
   <<CodeAndState(Str("!not-base64url!")), GoodToken>>,
   <<CodeAndState(Base64UrlEncode(Str("not json"))), GoodToken>>,
   <<CodeAndState(Base64UrlEncode(
       <<C("{"), QUOTE, C("url"), QUOTE, C(":"), QUOTE>> \o UrlOf(AppPath)
         \o <<QUOTE, C("}")>>)), GoodToken>>,
   <<CodeAndState(Base64UrlEncode(
       <<C("{"), QUOTE, C("csrf_token"), QUOTE, C(":"), QUOTE>> \o GoodToken
         \o <<QUOTE, C("}")>>)), GoodToken>>,
   <<CodeAndState(Base64UrlEncode(
       <<C("{"), QUOTE, C("url"), QUOTE, C(":"), C("1"), C(","), QUOTE, C("csrf_token"),
         QUOTE, C(":"), QUOTE>> \o GoodToken \o <<QUOTE, C("}")>>)), GoodToken>>,
   <<(<<C("error"), C("="), C("access_denied"), C("&")>> \o CodeAndState(GoodState)),
     GoodToken>>,
   <<(<<C("code"), C("="), C("AUTH")>>), GoodToken>>,
   <<(<<C("state"), C("=")>> \o GoodState), GoodToken>>,
   <<EMPTY_STRING, GoodToken>>}

CallbackPath(query) ==
  IF query = EMPTY_STRING THEN RedirectPath ELSE RedirectPath \o <<C("?")>> \o query

\* requests that exercise the session validator
SessionRequests ==
  {Req(AppPath, c, "https", <<ClientAuthorization>>, FALSE, FALSE) : c \in SessionCookies}

\* requests that reach the redirect to the IdP
RedirectRequests ==
  {Req(p, NonceCookie(n) \o <<(<<"other", Str("x")>>)>>, "https",
       <<ClientAuthorization>>, FALSE, d) :
     p \in {AppPath, QuotedPath}, n \in NonceValues, d \in BOOLEAN}
  \cup
  {Req(AppPath, IssuedSession(HostName, 1) \o NonceCookie(n) \o <<(<<"other", Str("x")>>)>>,
       "https", <<ClientAuthorization>>, FALSE, d) :
     n \in NonceValues, d \in BOOLEAN}
  \cup
  {Req(AppPath, NonceCookie(n), "http", <<>>, FALSE, FALSE) : n \in NonceValues}

\* requests on the callback path
CallbackRequests ==
  {Req(CallbackPath(cb[1]), s \o NonceCookie(cb[2]), "https", <<ClientAuthorization>>,
       FALSE, FALSE) :
     cb \in CallbackInputs,
     s \in {<<>>, IssuedSession(HostName, 2), IssuedSession(CookieDomain, 2),
            IssuedSession(HostName, 1)}}

SignoutRequests ==
  {Req(SignoutPath, s \o NonceCookie(n), sch, <<ClientAuthorization>>, FALSE, FALSE) :
     s \in {<<>>, IssuedSession(HostName, 2)},
     n \in {EMPTY_STRING, GoodToken, generateCsrfToken(OldSecret, Nonce1)},
     sch \in {"http", "https"}}

\* requests carrying a header a pass-through matcher matches
PassThroughRequests ==
  {[r EXCEPT !.pass = TRUE, !.authorization = a] :
     r \in {Req(AppPath, <<>>, "https", <<>>, FALSE, FALSE),
            Req(AppPath, IssuedSession(HostName, 2), "https", <<>>, FALSE, TRUE),
            Req(AppPath, IssuedSession(HostName, 1), "https", <<>>, FALSE, FALSE),
            Req(SignoutPath, <<>>, "https", <<>>, FALSE, FALSE),
            Req(CallbackPath(CodeAndState(GoodState)), NonceCookie(GoodToken), "https",
                <<>>, FALSE, FALSE)},
     a \in {<<>>, <<ClientAuthorization>>}}

Requests ==
  SessionRequests \cup RedirectRequests \cup CallbackRequests \cup SignoutRequests
    \cup PassThroughRequests

\* ------------------------------------------------------------------ the actions
PhaseOf(s) ==
  IF s = "Continue" THEN "forwarded"
  ELSE IF s = "StopAllIterationAndBuffer" THEN "paused_exchange"
  ELSE IF s = "StopAllIterationAndWatermark" THEN "paused_refresh"
  ELSE "replied"

FreshWorld(h) ==
  [headers |-> h, filter |-> NewFilter, validator |-> NewValidator, status |-> "None",
   responses |-> <<>>, upstream_set_cookie |-> <<>>, idp_calls |-> <<>>, continued |-> 0,
   stats |-> stats, trace |-> NewTrace]

\* the state a completion callback of the IdP client runs on
Delivered(completion, answer) ==
  [World EXCEPT !.trace.completion = completion, !.trace.answer = answer]

NoRequest == Req(EMPTY_STRING, <<>>, "https", <<>>, FALSE, FALSE)

\* ---- the user agent between two requests
\* the user agent has made no request before this one
NoPrevious ==
  [kind |-> "none", request |-> NoRequest, set_cookie |-> <<>>, answer |-> <<>>]

\* the cookie `name` in the store after a response: the last Set-Cookie for it decides,
\* one that is expired or has Max-Age 0 removes the cookie; without a Set-Cookie the
\* cookie of the last request stays. The result is the empty or one-element Cookie list
UserAgentCookie(cookie, set_cookie, name) ==
  LET set == {i \in 1..Len(set_cookie) : set_cookie[i].name = name}
      had == {i \in 1..Len(cookie) : cookie[i][1] = name}
  IN IF set # {}
     THEN LET c == set_cookie[CHOOSE i \in set : \A j \in set : j <= i] IN
            IF c.expires # "" \/ c.max_age = Str("0")
            THEN <<>>
            ELSE <<(<<name, c.value>>)>>
     ELSE IF had # {}
     THEN <<cookie[CHOOSE i \in had : \A j \in had : j <= i]>>
     ELSE <<>>

\* the Cookie header of the next request: the cookies of the last one, updated
UserAgentCookies(set_cookie) ==
  UserAgentCookie(request.cookie, set_cookie, CookieOrder[1])
    \o UserAgentCookie(request.cookie, set_cookie, CookieOrder[2])
    \o UserAgentCookie(request.cookie, set_cookie, CookieOrder[3])
    \o UserAgentCookie(request.cookie, set_cookie, CookieOrder[4])
    \o UserAgentCookie(request.cookie, set_cookie, CookieOrder[5])
    \o UserAgentCookie(request.cookie, set_cookie, CookieOrder[6])
    \o UserAgentCookie(request.cookie, set_cookie, CookieOrder[7])

\* location is a URL of this host
AtThisHost(location) == UrlInitialize(location) /\ <<location[3]>> = HostName

\* no state parameter is under way
NoDecoded == [ok |-> FALSE, url |-> EMPTY_STRING, csrf_token |-> EMPTY_STRING]
NoCodec ==
  [step |-> "none", url |-> EMPTY_STRING, csrf_token |-> EMPTY_STRING,
   state |-> EMPTY_STRING, decoded |-> NoDecoded]

Init ==
  /\ config \in FilterConfigs
  /\ secret = CurrentSecret
  /\ now = TicksPerSecond
  /\ phase = "idle"
  /\ headers = NoRequest
  /\ request = NoRequest
  /\ filter = NewFilter
  /\ validator = NewValidator
  /\ status = "None"
  /\ responses = <<>>
  /\ upstream_set_cookie = <<>>
  /\ idp_calls = <<>>
  /\ continued = 0
  /\ stats = ZeroStats
  /\ stats0 = ZeroStats
  /\ trace = NewTrace
  /\ decoded_at = 0
  /\ previous = NoPrevious
  /\ codec = NoCodec

\* a request arrives on a new stream: the filter is constructed and decodeHeaders runs
DecodeHeaders ==
  /\ phase = "idle"
  /\ \E h \in Requests, r \in Nonces :
       \E w \in decodeHeaders(FreshWorld(h), config, secret, now, r) :
         /\ Commit(w)
         /\ request' = h
         /\ phase' = PhaseOf(w.status)
  /\ stats0' = stats
  /\ decoded_at' = now
  /\ UNCHANGED <<codec, config, secret, now, previous>>

\* the upstream's response passes the filter
EncodeHeaders ==
  /\ phase = "forwarded"
  /\ \E w \in {encodeHeaders(World, config, secret)} : Commit(w)
  /\ phase' = "encoded"
  /\ UNCHANGED <<codec, config, secret, now, request, stats0, decoded_at, previous>>

OnGetAccessTokenSuccess ==
  /\ phase = "paused_exchange"
  /\ \E tok \in IdpTokens, expires_in \in IdpExpiresIn :
       \E w \in {onGetAccessTokenSuccess(Delivered("get_success", <<tok, expires_in>>),
                                         config, secret, now, tok[1], tok[2], tok[3],
                                         expires_in)} :
         Commit(w)
  /\ phase' = "replied"
  /\ UNCHANGED <<codec, config, secret, now, request, stats0, decoded_at, previous>>

\* the IdP client reports the failure of asyncGetAccessToken
OnGetAccessTokenFailure ==
  /\ phase = "paused_exchange"
  /\ \E w \in {sendUnauthorizedResponse(Delivered("get_failure", <<>>))} : Commit(w)
  /\ phase' = "replied"
  /\ UNCHANGED <<codec, config, secret, now, request, stats0, decoded_at, previous>>

OnRefreshAccessTokenSuccess ==
  /\ phase = "paused_refresh"
  /\ \E tok \in IdpTokens, expires_in \in IdpExpiresIn :
       \E w \in {onRefreshAccessTokenSuccess(Delivered("refresh_success",
                                                       <<tok, expires_in>>),
                                             config, secret, now, tok[1], tok[2], tok[3],
                                             expires_in)} :
         Commit(w)
  /\ phase' = "forwarded"
  /\ UNCHANGED <<codec, config, secret, now, request, stats0, decoded_at, previous>>

OnRefreshAccessTokenFailure ==
  /\ phase = "paused_refresh"
  /\ \E r \in Nonces :
       \E w \in onRefreshAccessTokenFailure(Delivered("refresh_failure", <<>>), config,
                                            secret, r) :
         Commit(w)
  /\ phase' = "replied"
  /\ UNCHANGED <<codec, config, secret, now, request, stats0, decoded_at, previous>>

\* time passes while no handler runs
Tick ==
  /\ now < MaxTime
  /\ phase \in {"idle", "paused_exchange", "paused_refresh"}
  /\ now' = now + 1
  /\ UNCHANGED <<codec, config, secret, phase, headers, request, filter, validator, status,
                 responses, upstream_set_cookie, idp_calls, continued, stats, stats0,
                 trace, decoded_at, previous>>

\* the user agent follows the 302 that ended its login, with its updated cookies: a new
\* stream, a new filter, decodeHeaders
FollowLogin ==
  /\ phase = "replied"
  /\ trace.completion = "get_success"
  /\ previous.kind = "none"
  /\ AtThisHost(responses[1].location)
  /\ \E h \in {[request EXCEPT !.path = pathAndQueryParams(responses[1].location),
                                !.cookie = UserAgentCookies(responses[1].set_cookie)]},
          r \in Nonces :
       \E w \in decodeHeaders(FreshWorld(h), config, secret, now, r) :
         /\ Commit(w)
         /\ request' = h
         /\ phase' = PhaseOf(w.status)
  /\ previous' = [kind |-> "login", request |-> request,
                  set_cookie |-> responses[1].set_cookie, answer |-> trace.answer]
  /\ stats0' = stats
  /\ decoded_at' = now
  /\ UNCHANGED <<codec, config, secret, now>>

Next ==
  \/ DecodeHeaders
  \/ EncodeHeaders
  \/ OnGetAccessTokenSuccess
  \/ OnGetAccessTokenFailure
  \/ OnRefreshAccessTokenSuccess
  \/ OnRefreshAccessTokenFailure
  \/ Tick

Spec == Init /\ [][Next]_vars

\* ---- the state parameter on its own: encodeState applied to a URL and a CSRF token,
\* and the result decoded as validateOAuthCallback decodes the state query parameter
\* the URLs put into a state: valid absolute URLs, with and without characters that
\* JSON escapes
StateUrls ==
  {UrlOf(AppPath), UrlOf(EMPTY_STRING), UrlOf(QuotedPath),
   UrlOf(<<C("/a"), BSLASH, C("b")>>), UrlOf(<<C("/two"), NL, C("lines")>>),
   <<C("http"), C("://")>> \o HostName \o <<C("/app?x=1&y=2")>>}

\* the CSRF tokens put into a state: tokens as the filter mints them, and strings with
\* characters that JSON escapes, shorter and longer than the URLs
StateCsrfTokens ==
  {generateCsrfToken(CurrentSecret, Nonce1), generateCsrfToken(OldSecret, Nonce2),
   EMPTY_STRING, <<C("a"), QUOTE, C("b")>>, <<BSLASH>>,
   <<C("t"), NL, C("o"), QUOTE, C("k"), BSLASH, C("e"), C("n"), C("."), C("x"), C("y")>>,
   Str("no-dot-in-here")}

InitState ==
  /\ config \in {CHOOSE c \in FilterConfigs : TRUE}
  /\ secret = CurrentSecret
  /\ now = TicksPerSecond
  /\ phase = "idle"
  /\ headers = NoRequest
  /\ request = NoRequest
  /\ filter = NewFilter
  /\ validator = NewValidator
  /\ status = "None"
  /\ responses = <<>>
  /\ upstream_set_cookie = <<>>
  /\ idp_calls = <<>>
  /\ continued = 0
  /\ stats = ZeroStats
  /\ stats0 = ZeroStats
  /\ trace = NewTrace
  /\ decoded_at = 0
  /\ previous = NoPrevious
  /\ \E url \in StateUrls, csrf_token \in StateCsrfTokens :
       codec = [NoCodec EXCEPT !.step = "input", !.url = url, !.csrf_token = csrf_token]

\* encodeState(original_url, csrf_token)
EncodeState ==
  /\ codec.step = "input"
  /\ \E state \in encodeState(codec.url, codec.csrf_token) :
       codec' = [codec EXCEPT !.step = "encoded", !.state = state]
  /\ UNCHANGED stream_vars

\* the state comes back as the `state` query parameter and is decoded
DecodeState ==
  /\ codec.step = "encoded"
  /\ codec' = [codec EXCEPT !.step = "decoded", !.decoded = decodeState(codec.state)]
  /\ UNCHANGED stream_vars

NextState ==
  \/ EncodeState
  \/ DecodeState

SpecState == InitState /\ [][NextState]_vars

\* the filter with a user agent that follows the redirect of its login
\* the user agent sends its next request after a refresh, with its cookies updated by
\* the Set-Cookie headers the filter added to the upstream's response: a new stream, a
\* new filter, decodeHeaders
FollowRefresh ==
  /\ phase = "encoded"
  /\ trace.completion = "refresh_success"
  /\ previous.kind = "none"
  /\ \E h \in {[request EXCEPT !.cookie = UserAgentCookies(upstream_set_cookie)]},
          r \in Nonces :
       \E w \in decodeHeaders(FreshWorld(h), config, secret, now, r) :
         /\ Commit(w)
         /\ request' = h
         /\ phase' = PhaseOf(w.status)
  /\ previous' = [kind |-> "refresh", request |-> request,
                  set_cookie |-> upstream_set_cookie, answer |-> trace.answer]
  /\ stats0' = stats
  /\ decoded_at' = now
  /\ UNCHANGED <<codec, config, secret, now>>

\* the user agent repeats a request that was answered 401, then or later, with the same
\* cookies (a 401 sets none): a new stream, a new filter, decodeHeaders
RepeatUnauthorized ==
  /\ phase = "replied"
  /\ Len(responses) = 1
  /\ responses[1].code = 401
  /\ previous.kind = "none"
  /\ \E t \in now..MaxTime, r \in Nonces :
       /\ now' = t
       /\ decoded_at' = t
       /\ \E w \in decodeHeaders(FreshWorld(request), config, secret, t, r) :
            /\ Commit(w)
            /\ phase' = PhaseOf(w.status)
  /\ previous' = [kind |-> "unauthorized", request |-> request,
                  set_cookie |-> responses[1].set_cookie, answer |-> <<>>]
  /\ stats0' = stats
  /\ UNCHANGED <<codec, config, secret, request>>

NextSession ==
  \/ Next
  \/ FollowLogin

SpecSession == Init /\ [][NextSession]_vars

\* the filter with a user agent that sends a next request after a refresh
NextRefreshed ==
  \/ Next
  \/ FollowRefresh

SpecRefreshed == Init /\ [][NextRefreshed]_vars

\* the filter with a user agent that repeats a request answered 401
NextRepeat ==
  \/ Next
  \/ RepeatUnauthorized

SpecRepeat == Init /\ [][NextRepeat]_vars

\* ------------------------------------------------------------------ the properties
\* ---- what the properties speak of, read off the request as the client sent it
HasRequestCookie(name) == \E i \in 1..Len(request.cookie) : request.cookie[i][1] = name

\* the value of the request's cookie `name`, the empty string when it carries none
RequestCookie(name) ==
  IF HasRequestCookie(name)
  THEN request.cookie[CHOOSE i \in 1..Len(request.cookie) :
                        /\ request.cookie[i][1] = name
                        /\ \A j \in (i + 1)..Len(request.cookie) :
                             request.cookie[j][1] # name][2]
  ELSE EMPTY_STRING

Decoded == phase # "idle"
PassThrough == request.pass
SignOutPath == signoutPath(request.path)
OnCallbackPath == redirectPathMatcher(request.path)

\* the request was handed to the upstream
Forwarded == status = "Continue" \/ continued > 0

\* the payload the session HMAC is taken over
SessionPayload ==
  (IF config.cookie_domain_ # EMPTY_STRING THEN config.cookie_domain_ ELSE request.host)
    \o <<NL>> \o RequestCookie(cookie_names.oauth_expires_)
    \o <<NL>> \o RequestCookie(cookie_names.bearer_token_)
    \o <<NL>> \o RequestCookie(cookie_names.id_token_)
    \o <<NL>> \o RequestCookie(cookie_names.refresh_token_)

\* the HMAC cookie is the recomputed HMAC, in one of the two encodings in use
HmacMatches ==
  \/ RequestCookie(cookie_names.oauth_hmac_) = <<(<<"b64", secret, SessionPayload>>)>>
  \/ RequestCookie(cookie_names.oauth_hmac_) = <<(<<"b64hex", secret, SessionPayload>>)>>

\* the expires cookie is an unsigned integer of seconds later than the tick t
ExpiresAfter(t) ==
  LET e == RequestCookie(cookie_names.oauth_expires_) IN
    /\ e # EMPTY_STRING
    /\ \A i \in 1..Len(e) : IsDigit(e[i])
    /\ SimpleAtoi(e) * TicksPerSecond > t

\* the session cookies of the request were valid when it was decoded
SessionAccepted == HmacMatches /\ ExpiresAfter(decoded_at)

RefreshSucceeded == trace.completion = "refresh_success"

BearerOf(token) == <<Str("Bearer ") \o token>>

\* C1: a request is handed to the upstream (Continue returned, or continueDecoding
\* called) only if a pass-through matcher matched, or its session cookies were valid and
\* its path is not the callback path, or the IdP reported the success of its refresh; in
\* every other case it is never forwarded and, once answered, the answer is one local
\* 302 or 401
C1_FailClosedForwarding ==
  Decoded =>
    /\ Forwarded =>
         \/ PassThrough
         \/ SessionAccepted /\ ~OnCallbackPath
         \/ RefreshSucceeded
    /\ ~(PassThrough \/ (SessionAccepted /\ ~OnCallbackPath) \/ RefreshSucceeded) =>
         /\ ~Forwarded
         /\ phase \in {"paused_exchange", "paused_refresh", "replied"}
         /\ phase = "replied" =>
              /\ Len(responses) = 1
              /\ responses[1].code \in {302, 401}

\* a request with an expired but correctly signed session was answered locally
C1_Witness ==
  /\ phase = "replied"
  /\ ~PassThrough /\ ~SignOutPath /\ ~OnCallbackPath
  /\ HmacMatches /\ ~SessionAccepted
  /\ ~Forwarded
  /\ Len(responses) = 1

\* C2: isValid returns true if and only if the HMAC cookie equals the HMAC recomputed
\* over domain, expires, access token, id token and refresh token of the request's
\* cookies (a missing cookie is an empty field, the domain is the configured cookie
\* domain if non-empty and the Host header otherwise) and the expires cookie parses as an
\* unsigned integer greater than the current time; an empty or unparsable expires, or
\* one equal to now, makes the session invalid
C2_IsValidIffHmacAndExpiry ==
  /\ (Decoded /\ ~PassThrough /\ ~SignOutPath) => trace.is_valid # "unset"
  /\ trace.is_valid # "unset" =>
       /\ trace.is_valid = "true" <=> (HmacMatches /\ ExpiresAfter(decoded_at))
       /\ (/\ HmacMatches
           /\ \/ RequestCookie(cookie_names.oauth_expires_) = EMPTY_STRING
              \/ SimpleAtoi(RequestCookie(cookie_names.oauth_expires_)) = -1
              \/ SimpleAtoi(RequestCookie(cookie_names.oauth_expires_)) * TicksPerSecond
                   = decoded_at)
            => trace.is_valid = "false"

\* isValid rejected a correctly signed session that expires at this very second
C2_Witness ==
  /\ trace.is_valid = "false"
  /\ HmacMatches
  /\ SimpleAtoi(RequestCookie(cookie_names.oauth_expires_)) * TicksPerSecond = decoded_at

\* C3: a request that is neither pass-through nor sign-out, whose session is valid and
\* whose path is not the callback path, is forwarded (Continue) with oauth_success
\* incremented once and no other counter touched, without any IdP call, and its
\* Authorization is "Bearer <bearer cookie>" exactly when forward_bearer_token is set and
\* the bearer cookie is non-empty (otherwise it is what the sanitizing left)
C3_ValidSessionForwarded ==
  (Decoded /\ ~PassThrough /\ ~SignOutPath /\ SessionAccepted /\ ~OnCallbackPath) =>
    /\ status = "Continue"
    /\ stats = [stats0 EXCEPT !.oauth_success = @ + 1]
    /\ idp_calls = <<>>
    /\ responses = <<>>
    /\ IF /\ config.forward_bearer_token_
          /\ RequestCookie(cookie_names.bearer_token_) # EMPTY_STRING
       THEN headers.authorization = BearerOf(RequestCookie(cookie_names.bearer_token_))
       ELSE headers.authorization =
              IF config.preserve_authorization_header_ THEN request.authorization ELSE <<>>

\* a valid session without a bearer cookie was forwarded under forward_bearer_token
C3_Witness ==
  /\ Decoded /\ ~PassThrough /\ ~SignOutPath /\ SessionAccepted /\ ~OnCallbackPath
  /\ config.forward_bearer_token_
  /\ RequestCookie(cookie_names.bearer_token_) = EMPTY_STRING
  /\ status = "Continue"

\* C4: a request a pass-through matcher matches, whatever its path and cookies, gets
\* Continue with all its headers unchanged (Authorization included), only
\* oauth_passthrough incremented, no response, no cookie and no IdP call
C4_PassThroughFirst ==
  (Decoded /\ PassThrough) =>
    /\ status = "Continue"
    /\ headers = request
    /\ stats = [stats0 EXCEPT !.oauth_passthrough = @ + 1]
    /\ responses = <<>>
    /\ upstream_set_cookie = <<>>
    /\ idp_calls = <<>>
    /\ continued = 0

\* a pass-through request on the callback path with a client's Authorization went
\* through a filter that sanitizes Authorization
C4_Witness ==
  /\ phase = "encoded"
  /\ PassThrough /\ OnCallbackPath
  /\ request.authorization # <<>>
  /\ ~config.preserve_authorization_header_
  /\ headers.authorization = request.authorization

\* C5: with preserve_authorization_header false, every forwarded request no pass-through
\* matcher matched has no Authorization header, or "Bearer " followed by the bearer cookie
\* of its validated session, or by the access token its refresh has just obtained
C5_ClientAuthorizationStripped ==
  (Decoded /\ ~config.preserve_authorization_header_ /\ ~PassThrough /\ Forwarded) =>
    \/ headers.authorization = <<>>
    \/ /\ ~RefreshSucceeded
       /\ SessionAccepted
       /\ headers.authorization = BearerOf(RequestCookie(cookie_names.bearer_token_))
    \/ /\ RefreshSucceeded
       /\ headers.authorization = BearerOf(trace.answer[1][1])

\* a request that came with a client's Authorization was forwarded after a refresh with
\* the refreshed access token as its bearer
C5_Witness ==
  /\ ~config.preserve_authorization_header_ /\ ~PassThrough /\ Forwarded
  /\ request.authorization # <<>>
  /\ RefreshSucceeded
  /\ headers.authorization = BearerOf(trace.answer[1][1])
  /\ trace.answer[1][1] # EMPTY_STRING

\* ---- the redirect to the IdP
\* csrf_token is <nonce>.<hmac> with the HMAC of the nonce under the current secret
TokenHmacVerifies(csrf_token) ==
  \E i \in 1..Len(csrf_token) :
    /\ csrf_token[i] = DOT
    /\ \A j \in 1..(i - 1) : csrf_token[j] # DOT
    /\ SubSeq(csrf_token, i + 1, Len(csrf_token))
         = <<(<<"b64", secret, SubSeq(csrf_token, 1, i - 1)>>)>>

\* the tokens the filter can mint under the current secret
MintedTokens == {n \o <<DOT>> \o <<(<<"b64", secret, n>>)>> : n \in Nonces}

IsUnauthorized(r) == r.code = 401 /\ r.location = EMPTY_STRING /\ r.set_cookie = <<>>

\* r is a 302 whose Location is at the authorization endpoint
IsIdpRedirect(r) ==
  /\ r.code = 302
  /\ Len(r.location) > Len(AuthorizationEndpoint)
  /\ SubSeq(r.location, 1, Len(AuthorizationEndpoint)) = AuthorizationEndpoint
  /\ r.location[Len(AuthorizationEndpoint) + 1] = C("?")

IdpRedirects == {i \in 1..Len(responses) : IsIdpRedirect(responses[i])}

\* the decoded state parameter of a redirect to the IdP
StateOf(r) ==
  loadFromJsonNoThrow(
    Base64UrlDecode(getFirstValue(parseQueryString(r.location), queryParamsState)))

NonceCookiesOf(r) ==
  {i \in 1..Len(r.set_cookie) : r.set_cookie[i].name = cookie_names.oauth_nonce_}

\* the decision machine reached the step after the session was found invalid, off the
\* callback path, without a refresh attempt
AtRedirectStep ==
  /\ Decoded /\ ~PassThrough /\ ~SignOutPath
  /\ ~SessionAccepted /\ ~OnCallbackPath
  /\ idp_calls = <<>>

\* redirectToOAuthServer ran: at that step, or after the refresh failed
RedirectAttempted ==
  /\ Decoded /\ ~PassThrough /\ ~SignOutPath
  /\ ~SessionAccepted /\ ~OnCallbackPath
  /\ idp_calls = <<>> \/ trace.completion = "refresh_failure"
  /\ ~request.deny

StaleNonceCookie ==
  /\ HasRequestCookie(cookie_names.oauth_nonce_)
  /\ ~TokenHmacVerifies(RequestCookie(cookie_names.oauth_nonce_))

UnauthorizedRqCounted ==
  stats.oauth_unauthorized_rq = stats0.oauth_unauthorized_rq + Cardinality(IdpRedirects)

\* C6 as stated: at the redirect step a deny-redirect match gives 401 with neither a
\* redirect nor a nonce cookie and everything else gives a 302 to the authorization
\* endpoint; oauth_unauthorized_rq counts exactly the 302s to the IdP
C6_AsStated ==
  /\ AtRedirectStep =>
       /\ Len(responses) = 1
       /\ IF request.deny
          THEN IsUnauthorized(responses[1])
          ELSE IsIdpRedirect(responses[1])
  /\ UnauthorizedRqCounted

\* C6: at the redirect step a deny-redirect match gives 401 with neither a redirect nor a
\* nonce cookie; otherwise a request carrying a nonce cookie whose embedded HMAC fails
\* gives the same 401, and every other request a 302 to the authorization endpoint;
\* oauth_unauthorized_rq is incremented once per 302 to the IdP and never otherwise
C6_RedirectOrDeny ==
  /\ AtRedirectStep =>
       /\ Len(responses) = 1
       /\ IF request.deny \/ StaleNonceCookie
          THEN IsUnauthorized(responses[1])
          ELSE IsIdpRedirect(responses[1])
  /\ UnauthorizedRqCounted
  /\ stats.oauth_unauthorized_rq > stats0.oauth_unauthorized_rq =>
       /\ ~PassThrough /\ ~SignOutPath /\ ~OnCallbackPath /\ ~SessionAccepted
       /\ ~request.deny

\* no deny-redirect matcher matched, and the stale nonce cookie of the request got a 401
C6_Witness ==
  /\ AtRedirectStep
  /\ ~request.deny
  /\ StaleNonceCookie
  /\ IsUnauthorized(responses[1])
  /\ stats.oauth_unauthorized_rq = stats0.oauth_unauthorized_rq

\* C7: when the filter redirects to the IdP, a nonce Set-Cookie with Max-Age 600 is
\* emitted if and only if the request carries no nonce cookie, and its value is a newly
\* minted token; a nonce cookie of the request is reused unchanged in the state, only its
\* embedded HMAC is checked, and a failed check gives 401 and no redirect
C7_NonceCookieMintedOrReused ==
  RedirectAttempted =>
    /\ Len(responses) = 1
    /\ IF HasRequestCookie(cookie_names.oauth_nonce_)
       THEN IF TokenHmacVerifies(RequestCookie(cookie_names.oauth_nonce_))
            THEN /\ IsIdpRedirect(responses[1])
                 /\ responses[1].set_cookie = <<>>
                 /\ StateOf(responses[1]).ok
                 /\ FieldsAt(StateOf(responses[1]).fields, stateParamsCsrfToken)
                      = RequestCookie(cookie_names.oauth_nonce_)
            ELSE IsUnauthorized(responses[1])
       ELSE /\ IsIdpRedirect(responses[1])
            /\ Len(responses[1].set_cookie) = 1
            /\ responses[1].set_cookie[1].name = cookie_names.oauth_nonce_
            /\ responses[1].set_cookie[1].max_age = <<C("6"), C("0"), C("0")>>
            /\ responses[1].set_cookie[1].value \in MintedTokens

\* a request that came with a nonce cookie was redirected without a Set-Cookie after its
\* refresh failed
C7_Witness ==
  /\ RedirectAttempted
  /\ trace.completion = "refresh_failure"
  /\ HasRequestCookie(cookie_names.oauth_nonce_)
  /\ IsIdpRedirect(responses[1])
  /\ responses[1].set_cookie = <<>>

\* the nonce cookie the user agent holds after the response r
HeldNonceCookie(r) ==
  IF HasRequestCookie(cookie_names.oauth_nonce_)
  THEN RequestCookie(cookie_names.oauth_nonce_)
  ELSE r.set_cookie[CHOOSE i \in NonceCookiesOf(r) : TRUE].value

\* C8: for every 302 to the IdP, the csrf_token inside the emitted state parameter equals
\* the nonce cookie the user agent holds after that response (the request's nonce cookie
\* if it has one, otherwise the nonce Set-Cookie of the response), and that token passes
\* the HMAC validation under the current secret
C8_DoubleSubmitBinding ==
  \A i \in IdpRedirects :
    /\ HasRequestCookie(cookie_names.oauth_nonce_) \/ NonceCookiesOf(responses[i]) # {}
    /\ StateOf(responses[i]).ok
    /\ FieldsContain(StateOf(responses[i]).fields, stateParamsCsrfToken)
    /\ FieldsAt(StateOf(responses[i]).fields, stateParamsCsrfToken)
         = HeldNonceCookie(responses[i])
    /\ TokenHmacVerifies(HeldNonceCookie(responses[i]))
    /\ validateCsrfTokenHmac(secret, HeldNonceCookie(responses[i]))

\* a redirect to the IdP carried a newly minted token in its state and its Set-Cookie
C8_Witness ==
  /\ IdpRedirects # {}
  /\ ~HasRequestCookie(cookie_names.oauth_nonce_)
  /\ \E i \in IdpRedirects :
       /\ NonceCookiesOf(responses[i]) # {}
       /\ FieldsAt(StateOf(responses[i]).fields, stateParamsCsrfToken)
            = HeldNonceCookie(responses[i])

\* ---- the callback
CallbackQuery == parseQueryString(request.path)

\* the decoded state parameter of the request
CallbackState ==
  loadFromJsonNoThrow(Base64UrlDecode(getFirstValue(CallbackQuery, queryParamsState)))

\* the conditions of a valid callback, in the order they are stated
CallbackValid ==
  /\ ~HasValue(CallbackQuery, queryParamsError)
  /\ HasValue(CallbackQuery, queryParamsCode)
  /\ HasValue(CallbackQuery, queryParamsState)
  /\ CallbackState.ok
  /\ FieldsContain(CallbackState.fields, stateParamsUrl)
  /\ FieldsContain(CallbackState.fields, stateParamsCsrfToken)
  /\ HasRequestCookie(cookie_names.oauth_nonce_)
  /\ RequestCookie(cookie_names.oauth_nonce_)
       = FieldsAt(CallbackState.fields, stateParamsCsrfToken)
  /\ TokenHmacVerifies(RequestCookie(cookie_names.oauth_nonce_))
  /\ UrlInitialize(FieldsAt(CallbackState.fields, stateParamsUrl))

TokenExchanges == {i \in 1..Len(idp_calls) : idp_calls[i].op = "asyncGetAccessToken"}

\* C9: validateOAuthCallback returns valid if and only if there is no "error" query
\* parameter, "code" and "state" are present, state Base64Url-decodes to JSON with "url"
\* and "csrf_token", the nonce cookie exists, equals csrf_token and its embedded HMAC
\* verifies, and url parses as an absolute URL; when a condition fails the filter answers
\* 401, increments oauth_failure and never calls asyncGetAccessToken
C9_CallbackValidation ==
  /\ (Decoded /\ ~PassThrough /\ ~SignOutPath /\ OnCallbackPath) =>
       trace.callback # "unset"
  /\ trace.callback # "unset" =>
       /\ trace.callback = "valid" <=> CallbackValid
       /\ ~CallbackValid =>
            /\ phase = "replied"
            /\ Len(responses) = 1
            /\ IsUnauthorized(responses[1])
            /\ responses[1].body = UnauthorizedBodyMessage
            /\ stats.oauth_failure = stats0.oauth_failure + 1
            /\ TokenExchanges = {}
            /\ ~Forwarded

\* a well-formed callback whose nonce cookie is absent was answered 401
C9_Witness ==
  /\ trace.callback = "invalid"
  /\ ~HasValue(CallbackQuery, queryParamsError)
  /\ HasValue(CallbackQuery, queryParamsCode)
  /\ HasValue(CallbackQuery, queryParamsState)
  /\ CallbackState.ok
  /\ FieldsContain(CallbackState.fields, stateParamsUrl)
  /\ FieldsContain(CallbackState.fields, stateParamsCsrfToken)
  /\ TokenHmacVerifies(FieldsAt(CallbackState.fields, stateParamsCsrfToken))
  /\ UrlInitialize(FieldsAt(CallbackState.fields, stateParamsUrl))
  /\ ~HasRequestCookie(cookie_names.oauth_nonce_)
  /\ IsUnauthorized(responses[1])

\* C10: a request on the callback path with an invalid session and a valid callback has
\* its "code" recorded as auth_code and the url of its state as original_request_url,
\* asyncGetAccessToken issued exactly once with that code, and is paused
\* (StopAllIterationAndBuffer); until a completion arrives no response is sent and
\* nothing is forwarded
C10_CallbackStartsExchange ==
  (/\ Decoded /\ ~PassThrough /\ ~SignOutPath
   /\ OnCallbackPath /\ ~SessionAccepted /\ CallbackValid) =>
    /\ filter.auth_code_ = getFirstValue(CallbackQuery, queryParamsCode)
    /\ filter.original_request_url_ = FieldsAt(CallbackState.fields, stateParamsUrl)
    /\ Len(idp_calls) = 1
    /\ idp_calls[1].op = "asyncGetAccessToken"
    /\ idp_calls[1].arg = getFirstValue(CallbackQuery, queryParamsCode)
    /\ status = "StopAllIterationAndBuffer"
    /\ ~Forwarded
    /\ trace.completion = "none" =>
         /\ phase = "paused_exchange"
         /\ responses = <<>>
    /\ trace.completion # "none" => phase = "replied"

\* a valid callback with an expired session is paused on its exchange, time having passed
C10_Witness ==
  /\ phase = "paused_exchange"
  /\ OnCallbackPath /\ ~SessionAccepted /\ HmacMatches /\ CallbackValid
  /\ Len(idp_calls) = 1
  /\ filter.auth_code_ = Str("AUTH")
  /\ now > decoded_at
  /\ responses = <<>>

\* ---- the completion of the token exchange
\* the Set-Cookie headers of cookies, a sequence, that set the cookie `name`
SetCookiesNamed(cookies, name) == {i \in 1..Len(cookies) : cookies[i].name = name}

\* the token cookies: <<cookie name, its disable flag, the token the IdP answered>>
TokenCookies ==
  {<<cookie_names.bearer_token_, config.disable_access_token_set_cookie_, trace.answer[1][1]>>,
   <<cookie_names.id_token_, config.disable_id_token_set_cookie_, trace.answer[1][2]>>,
   <<cookie_names.refresh_token_, config.disable_refresh_token_set_cookie_,
     trace.answer[1][3]>>}

ExchangeSucceeded == trace.completion = "get_success"

\* the 302 after the exchange, apart from its token cookies
LoggedInRedirect ==
  /\ phase = "replied"
  /\ Len(responses) = 1
  /\ responses[1].code = 302
  /\ responses[1].location = FieldsAt(CallbackState.fields, stateParamsUrl)
  /\ responses[1].details = REDIRECT_LOGGED_IN
  /\ Cardinality(SetCookiesNamed(responses[1].set_cookie, cookie_names.oauth_hmac_)) = 1
  /\ Cardinality(SetCookiesNamed(responses[1].set_cookie, cookie_names.oauth_expires_)) = 1
  /\ SetCookiesNamed(responses[1].set_cookie, cookie_names.oauth_nonce_) = {}
  /\ stats.oauth_success = stats0.oauth_success + 1
  /\ ~Forwarded

\* C11 as stated: after onGetAccessTokenSuccess the answer is a 302 to the recorded
\* original_request_url with Set-Cookies for hmac and expires and one Set-Cookie for each
\* token whose disable flag is off; oauth_success is incremented once and nothing is
\* forwarded
C11_AsStated ==
  ExchangeSucceeded =>
    /\ LoggedInRedirect
    /\ \A tc \in TokenCookies :
         Cardinality(SetCookiesNamed(responses[1].set_cookie, tc[1]))
           = IF ~tc[2] THEN 1 ELSE 0

\* C11: after onGetAccessTokenSuccess the answer is a 302 to the recorded
\* original_request_url with Set-Cookies for hmac and expires and one Set-Cookie, carrying
\* the token, for each token whose disable flag is off and that the IdP returned
\* non-empty; oauth_success is incremented once and nothing is forwarded
C11_ExchangeCompletion ==
  ExchangeSucceeded =>
    /\ LoggedInRedirect
    /\ \A tc \in TokenCookies :
         /\ Cardinality(SetCookiesNamed(responses[1].set_cookie, tc[1]))
              = IF ~tc[2] /\ tc[3] # EMPTY_STRING THEN 1 ELSE 0
         /\ \A i \in SetCookiesNamed(responses[1].set_cookie, tc[1]) :
              responses[1].set_cookie[i].value = tc[3]

\* the IdP answered an access token without id and refresh tokens, none disabled: the 302
\* sets the bearer cookie and neither of the others
C11_Witness ==
  /\ ExchangeSucceeded
  /\ \A tc \in TokenCookies : ~tc[2]
  /\ trace.answer[1][1] # EMPTY_STRING
  /\ trace.answer[1][2] = EMPTY_STRING
  /\ Cardinality(SetCookiesNamed(responses[1].set_cookie, cookie_names.bearer_token_)) = 1
  /\ SetCookiesNamed(responses[1].set_cookie, cookie_names.id_token_) = {}
  /\ responses[1].code = 302

ExchangeFailed == trace.completion = "get_failure"

\* C12: when the IdP client reports the failure of asyncGetAccessToken the paused request
\* ends with 401, oauth_failure is incremented, no session cookie is emitted,
\* oauth_success is not incremented and the request is never forwarded
C12_ExchangeFailureUnauthorized ==
  ExchangeFailed =>
    /\ phase = "replied"
    /\ Len(responses) = 1
    /\ IsUnauthorized(responses[1])
    /\ upstream_set_cookie = <<>>
    /\ stats = [stats0 EXCEPT !.oauth_failure = @ + 1]
    /\ ~Forwarded

\* a valid callback whose exchange failed was answered 401
C12_Witness ==
  /\ ExchangeFailed
  /\ CallbackValid
  /\ Len(idp_calls) = 1
  /\ IsUnauthorized(responses[1])
  /\ stats.oauth_failure = stats0.oauth_failure + 1

\* ---- the request that follows a login
\* the user agent has followed the 302 of a successful token exchange to a page of the
\* application; the exchange gave the session a lifetime and every cookie that 302 set
\* can still be sent
FollowedLogin ==
  /\ previous.kind = "login"
  /\ ~OnCallbackPath
  /\ ~SignOutPath
  /\ previous.answer[2] > 0
  /\ \A i \in 1..Len(previous.set_cookie) : previous.set_cookie[i].max_age # Str("0")

\* the HMAC the login's 302 emitted
EmittedHmac ==
  previous.set_cookie[CHOOSE i \in 1..Len(previous.set_cookie) :
                        previous.set_cookie[i].name = cookie_names.oauth_hmac_].value

\* the request of the login carried a token cookie that its 302 did not set again
StaleTokenCookies ==
  {n \in {cookie_names.bearer_token_, cookie_names.id_token_, cookie_names.refresh_token_} :
     /\ \E i \in 1..Len(previous.request.cookie) : previous.request.cookie[i][1] = n
     /\ SetCookiesNamed(previous.set_cookie, n) = {}}

\* the follow-up request passed the filter on its session, with no new flow
PassedOnSession ==
  /\ RequestCookie(cookie_names.oauth_hmac_) = EmittedHmac
  /\ HmacMatches
  /\ SessionAccepted
  /\ trace.is_valid = "true"
  /\ status = "Continue"
  /\ responses = <<>>
  /\ idp_calls = <<>>

\* C13 as stated: the request that follows the 302 of a successful token exchange with
\* the cookies of that response carries the emitted HMAC, which is the HMAC recomputed
\* from its cookies; its session is valid and it is forwarded with no redirect, no 401
\* and no IdP call.
C13_AsStated == FollowedLogin => PassedOnSession

\* C13, for a login that leaves no stale token cookie behind
C13_LoginEstablishesSession ==
  (FollowedLogin /\ StaleTokenCookies = {}) => PassedOnSession

C13_Witness ==
  /\ FollowedLogin
  /\ StaleTokenCookies = {}
  /\ PassedOnSession
  /\ previous.answer[1][1] # EMPTY_STRING
  /\ HasRequestCookie(cookie_names.bearer_token_)

\* ---- the refresh flow
\* the request is neither passed through nor a sign-out, its session is not valid, and the
\* configuration and its refresh-token cookie allow a refresh
Refreshable ==
  /\ ~PassThrough
  /\ ~SignOutPath
  /\ ~SessionAccepted
  /\ config.use_refresh_token_
  /\ RequestCookie(cookie_names.refresh_token_) # EMPTY_STRING

\* asyncRefreshAccessToken calls made with the refresh token of the request
RefreshCalls ==
  {i \in 1..Len(idp_calls) :
     /\ idp_calls[i].op = "asyncRefreshAccessToken"
     /\ idp_calls[i].arg = RequestCookie(cookie_names.refresh_token_)}

\* the one IdP call of the request is that refresh, and the request stays paused until
\* the IdP client calls back
RefreshIssuedAndPaused ==
  /\ Len(idp_calls) = 1
  /\ RefreshCalls = {1}
  /\ trace.completion = "none" =>
       /\ phase = "paused_refresh"
       /\ status = "StopAllIterationAndWatermark"
       /\ responses = <<>>
       /\ continued = 0

\* C14 as stated: every request that is neither passed through nor a sign-out, whose
\* session is invalid and which carries a refresh token while use_refresh_token is set,
\* has asyncRefreshAccessToken called and is paused, the callback path included.
C14_AsStated == (Decoded /\ Refreshable) => RefreshIssuedAndPaused

\* C14, amended: the refresh is issued and the request paused on every path but the
\* callback path; on the callback path no refresh is issued (the callback is validated).
C14_RefreshFastPath ==
  (Decoded /\ Refreshable) =>
    IF OnCallbackPath
    THEN /\ \A i \in 1..Len(idp_calls) : idp_calls[i].op # "asyncRefreshAccessToken"
         /\ trace.callback \in {"valid", "invalid"}
    ELSE RefreshIssuedAndPaused

C14_Witness ==
  /\ Decoded
  /\ Refreshable
  /\ ~OnCallbackPath
  /\ phase = "paused_refresh"
  /\ RefreshCalls = {1}

\* ---- the request a refresh resumes
\* the value of the cookie `name` in the Cookie header as the upstream gets it
HeaderCookie(name) ==
  IF \E i \in 1..Len(headers.cookie) : headers.cookie[i][1] = name
  THEN headers.cookie[CHOOSE i \in 1..Len(headers.cookie) :
                        /\ headers.cookie[i][1] = name
                        /\ \A j \in (i + 1)..Len(headers.cookie) :
                             headers.cookie[j][1] # name][2]
  ELSE EMPTY_STRING

\* the token the session takes from the IdP's answer: none when its cookie is disabled
SessionToken(tc) == IF tc[2] THEN EMPTY_STRING ELSE tc[3]

\* epoch seconds at which the answered session expires
AnsweredExpires == to_string((now \div TicksPerSecond) + trace.answer[2])

\* the HMAC of the session the IdP's answer gives
AnsweredHmac ==
  <<(<<"b64", secret,
       (IF config.cookie_domain_ # EMPTY_STRING THEN config.cookie_domain_
        ELSE request.host)
         \o <<NL>> \o AnsweredExpires
         \o <<NL>> \o (IF config.disable_access_token_set_cookie_ THEN EMPTY_STRING
                       ELSE trace.answer[1][1])
         \o <<NL>> \o (IF config.disable_id_token_set_cookie_ THEN EMPTY_STRING
                       ELSE trace.answer[1][2])
         \o <<NL>> \o (IF config.disable_refresh_token_set_cookie_ THEN EMPTY_STRING
                       ELSE trace.answer[1][3])>>)>>

\* the resumed request apart from its token cookies
ResumedWithNewSession ==
  /\ HeaderCookie(cookie_names.oauth_hmac_) = AnsweredHmac
  /\ HeaderCookie(cookie_names.oauth_expires_) = AnsweredExpires
  /\ HeaderCookie(cookie_names.oauth_nonce_) = RequestCookie(cookie_names.oauth_nonce_)
  /\ HeaderCookie("other") = RequestCookie("other")
  /\ stats.oauth_refreshtoken_success = stats0.oauth_refreshtoken_success + 1
  /\ continued = 1
  /\ responses = <<>>

\* C15 as stated: after onRefreshAccessTokenSuccess the Cookie header of the resumed
\* request carries the new hmac, the new expires and, for every token whose cookie is
\* not disabled, the value the IdP returned in place of the old one; the other cookies
\* keep their values, oauth_refreshtoken_success is incremented and the request is
\* resumed exactly once.
C15_AsStated ==
  RefreshSucceeded =>
    /\ ResumedWithNewSession
    /\ \A tc \in TokenCookies : ~tc[2] => HeaderCookie(tc[1]) = tc[3]

\* C15 as the code has it: a token cookie is overwritten when its cookie is not disabled
\* and the returned token is not empty, and keeps the request's value otherwise.
C15_RefreshRewritesCookies ==
  RefreshSucceeded =>
    /\ ResumedWithNewSession
    /\ \A tc \in TokenCookies :
         HeaderCookie(tc[1]) = IF SessionToken(tc) # EMPTY_STRING THEN tc[3]
                               ELSE RequestCookie(tc[1])

C15_Witness ==
  /\ RefreshSucceeded
  /\ ResumedWithNewSession
  /\ HeaderCookie("other") # EMPTY_STRING
  /\ \A tc \in TokenCookies : tc[3] # EMPTY_STRING /\ HeaderCookie(tc[1]) = tc[3]
                                /\ RequestCookie(tc[1]) # tc[3]

\* the Authorization header of the request once decodeHeaders has sanitized it
SanitizedAuthorization ==
  IF config.preserve_authorization_header_ THEN request.authorization ELSE <<>>

\* C16 as stated: on refresh success with forward_bearer_token set the resumed request
\* carries Authorization: Bearer <access token the IdP returned>, whatever the
\* disable_*_set_cookie flags are.
C16_AsStated ==
  (RefreshSucceeded /\ config.forward_bearer_token_) =>
    headers.authorization = BearerOf(trace.answer[1][1])

\* C16, amended: on refresh success the resumed request carries Authorization: Bearer
\* <access token the IdP returned> if forward_bearer_token is set, the access-token
\* cookie is not disabled and the returned access token is not empty; otherwise its
\* Authorization header is the sanitized one of the request.
C16_RefreshForwardsBearer ==
  RefreshSucceeded =>
    headers.authorization =
      IF /\ config.forward_bearer_token_
         /\ ~config.disable_access_token_set_cookie_
         /\ trace.answer[1][1] # EMPTY_STRING
      THEN BearerOf(trace.answer[1][1])
      ELSE SanitizedAuthorization

C16_Witness ==
  /\ RefreshSucceeded
  /\ config.forward_bearer_token_
  /\ config.disable_refresh_token_set_cookie_
  /\ trace.answer[1][1] # EMPTY_STRING
  /\ headers.authorization = BearerOf(trace.answer[1][1])
  /\ request.authorization # headers.authorization
  /\ RequestCookie(cookie_names.bearer_token_) # trace.answer[1][1]

\* ---- the upstream's response
\* the values of the Set-Cookie headers for `name` added to the upstream's response
UpstreamSetCookies(name) ==
  {upstream_set_cookie[i].value : i \in SetCookiesNamed(upstream_set_cookie, name)}

\* the Set-Cookie headers added are those of the session written into the Cookie header of
\* the resumed request, each once
SessionCookiesInjected ==
  /\ UpstreamSetCookies(cookie_names.oauth_hmac_) = {HeaderCookie(cookie_names.oauth_hmac_)}
  /\ UpstreamSetCookies(cookie_names.oauth_expires_)
       = {HeaderCookie(cookie_names.oauth_expires_)}
  /\ \A tc \in TokenCookies :
       UpstreamSetCookies(tc[1]) = IF SessionToken(tc) # EMPTY_STRING THEN {tc[3]} ELSE {}
  /\ \A tc \in TokenCookies :
       SessionToken(tc) # EMPTY_STRING => HeaderCookie(tc[1]) = tc[3]
  /\ UpstreamSetCookies(cookie_names.oauth_nonce_) = {}
  /\ Len(upstream_set_cookie)
       = 2 + Cardinality({tc \in TokenCookies : SessionToken(tc) # EMPTY_STRING})

\* C17: encodeHeaders runs after the resume of a refreshed request and adds to the
\* upstream's response, each exactly once, the Set-Cookies of the session written into
\* the request's Cookie header (hmac, expires, tokens), clearing was_refresh_token_flow_;
\* before that, and for a request that completed no refresh, no Set-Cookie is added.
C17_ResponseCookiesAfterRefresh ==
  /\ phase # "encoded" =>
       /\ upstream_set_cookie = <<>>
       /\ filter.was_refresh_token_flow_ = (phase = "forwarded" /\ RefreshSucceeded)
  /\ phase = "encoded" =>
       /\ ~filter.was_refresh_token_flow_
       /\ IF RefreshSucceeded THEN SessionCookiesInjected ELSE upstream_set_cookie = <<>>

C17_Witness ==
  /\ phase = "encoded"
  /\ RefreshSucceeded
  /\ SessionCookiesInjected
  /\ Len(upstream_set_cookie) = 5

\* a response of a request that completed no refresh has passed encodeHeaders
C17_WitnessNoRefresh ==
  /\ phase = "encoded"
  /\ ~RefreshSucceeded
  /\ upstream_set_cookie = <<>>

\* ---- the failed refresh
RefreshFailed == trace.completion = "refresh_failure"

\* the answer the redirect step gives to the request: 401 on a deny-redirect match or a
\* nonce cookie whose HMAC fails, else the 302 to the IdP that reuses the nonce cookie of
\* the request or sets a minted one
RedirectStepAnswer ==
  /\ Len(responses) = 1
  /\ IF request.deny \/ StaleNonceCookie
     THEN /\ IsUnauthorized(responses[1])
          /\ stats.oauth_failure = stats0.oauth_failure + 1
          /\ stats.oauth_unauthorized_rq = stats0.oauth_unauthorized_rq
     ELSE /\ IsIdpRedirect(responses[1])
          /\ StateOf(responses[1]).ok
          /\ stats.oauth_failure = stats0.oauth_failure
          /\ stats.oauth_unauthorized_rq = stats0.oauth_unauthorized_rq + 1
          /\ IF HasRequestCookie(cookie_names.oauth_nonce_)
             THEN /\ responses[1].set_cookie = <<>>
                  /\ FieldsAt(StateOf(responses[1]).fields, stateParamsCsrfToken)
                       = RequestCookie(cookie_names.oauth_nonce_)
             ELSE /\ Len(responses[1].set_cookie) = 1
                  /\ responses[1].set_cookie[1].name = cookie_names.oauth_nonce_
                  /\ responses[1].set_cookie[1].value \in MintedTokens
                  /\ FieldsAt(StateOf(responses[1]).fields, stateParamsCsrfToken)
                       = responses[1].set_cookie[1].value

\* C18: on onRefreshAccessTokenFailure oauth_refreshtoken_failure is incremented and the
\* paused request gets the answer of the redirect step: 401 if a deny-redirect matcher
\* matches, otherwise the redirect to the IdP with its CSRF cookie handling; the request
\* is not forwarded and its Cookie header is not modified.
C18_RefreshFailureFallsBack ==
  RefreshFailed =>
    /\ stats.oauth_refreshtoken_failure = stats0.oauth_refreshtoken_failure + 1
    /\ stats.oauth_refreshtoken_success = stats0.oauth_refreshtoken_success
    /\ RedirectStepAnswer
    /\ ~Forwarded
    /\ phase = "replied"
    /\ headers.cookie = request.cookie
    /\ upstream_set_cookie = <<>>

C18_Witness ==
  /\ RefreshFailed
  /\ ~request.deny
  /\ ~StaleNonceCookie
  /\ HasRequestCookie(cookie_names.oauth_nonce_)
  /\ IsIdpRedirect(responses[1])
  /\ stats.oauth_refreshtoken_failure = stats0.oauth_refreshtoken_failure + 1

\* the refresh of a request on which a deny-redirect matcher matches has failed
C18_WitnessDenied ==
  /\ RefreshFailed
  /\ request.deny
  /\ IsUnauthorized(responses[1])

\* ---- paused requests
PausedPhases == {"paused_exchange", "paused_refresh"}

\* what has completed the request: resumptions and local replies
Completions == continued + Len(responses)

\* C19: a request paused for the IdP has one IdP call outstanding and no completion; the
\* callback of the IdP client (success or failure) ends the pause in the same step with
\* exactly one completion: the resume to the upstream (refresh success only), a 302 or a
\* 401. No request has more than one completion.
C19_PausedCompletedOnce ==
  /\ Completions <= 1
  /\ phase \in PausedPhases <=> (idp_calls # <<>> /\ trace.completion = "none")
  /\ phase \in PausedPhases =>
       /\ Completions = 0
       /\ Len(idp_calls) = 1
       /\ status \in {"StopAllIterationAndBuffer", "StopAllIterationAndWatermark"}
  /\ trace.completion # "none" =>
       /\ Len(idp_calls) = 1
       /\ Completions = 1
       /\ IF continued = 1
          THEN trace.completion = "refresh_success" /\ phase \in {"forwarded", "encoded"}
          ELSE /\ phase = "replied"
               /\ responses[1].code \in {302, 401}
               /\ trace.completion = "get_success" => responses[1].code = 302
               /\ trace.completion = "get_failure" => responses[1].code = 401

\* a failed refresh has completed the paused request with a 401
C19_Witness ==
  /\ trace.completion = "refresh_failure"
  /\ Completions = 1
  /\ responses[1].code = 401
  /\ Len(idp_calls) = 1

\* ---- sign-out
SignedOut == Decoded /\ ~PassThrough /\ SignOutPath

\* the Set-Cookie headers of the reply that delete the cookie `name`
DeletionsOf(name) ==
  {i \in SetCookiesNamed(responses[1].set_cookie, name) :
     /\ responses[1].set_cookie[i].value = Str("deleted")
     /\ responses[1].set_cookie[i].expires = "Thu, 01 Jan 1970 00:00:00 GMT"}

\* the 302 to the root of the request's scheme and host; no IdP call, nothing forwarded
SignOutRedirect ==
  /\ phase = "replied"
  /\ Len(responses) = 1
  /\ responses[1].code = 302
  /\ responses[1].location = <<C(request.scheme), C("://")>> \o request.host \o Str("/")
  /\ idp_calls = <<>>
  /\ ~Forwarded

\* C20 as stated: a request on the sign-out path that is not passed through is answered,
\* whatever its cookies, with a 302 to <scheme>://<host>/ carrying one deletion
\* Set-Cookie for each of hmac, expires, bearer, id, refresh and nonce; no IdP call is
\* made and the request is not forwarded.
C20_AsStated ==
  SignedOut =>
    /\ SignOutRedirect
    /\ \A name \in {cookie_names.oauth_hmac_, cookie_names.oauth_expires_,
                    cookie_names.bearer_token_, cookie_names.id_token_,
                    cookie_names.refresh_token_, cookie_names.oauth_nonce_} :
         Cardinality(DeletionsOf(name)) = 1

\* C20 as the code has it: the deletions are those of hmac, bearer, id, refresh and
\* nonce; the expires cookie is not deleted.
C20_SignOutDeletesFive ==
  SignedOut =>
    /\ SignOutRedirect
    /\ \A name \in {cookie_names.oauth_hmac_, cookie_names.bearer_token_,
                    cookie_names.id_token_, cookie_names.refresh_token_,
                    cookie_names.oauth_nonce_} :
         Cardinality(DeletionsOf(name)) = 1
    /\ SetCookiesNamed(responses[1].set_cookie, cookie_names.oauth_expires_) = {}
    /\ Len(responses[1].set_cookie) = 5

\* a sign-out of a request that carries a valid session
C20_Witness ==
  /\ SignedOut
  /\ SessionAccepted
  /\ request.scheme = "http"
  /\ SignOutRedirect
  /\ Len(responses[1].set_cookie) = 5

\* ---- the callback of a request that has a valid session
RaceCallback ==
  /\ Decoded /\ ~PassThrough /\ ~SignOutPath
  /\ SessionAccepted /\ OnCallbackPath

\* the url of the state parameter leads back to the callback path
StateUrlOnCallbackPath ==
  redirectPathMatcher(pathAndQueryParams(FieldsAt(CallbackState.fields, stateParamsUrl)))

\* C21: a request with a valid session on the callback path starts no token exchange and
\* is not forwarded; it is answered 401 if the callback validator fails or the loop guard
\* applies, and otherwise with a 302 (oauth.race_redirect) to the original_request_url of
\* its state.
C21_RaceRedirect ==
  RaceCallback =>
    /\ idp_calls = <<>>
    /\ ~Forwarded
    /\ phase = "replied"
    /\ trace.completion = "none"
    /\ Len(responses) = 1
    /\ IF ~CallbackValid
       THEN IsUnauthorized(responses[1])
       ELSE IF StateUrlOnCallbackPath
       THEN IsUnauthorized(responses[1])
       ELSE /\ responses[1].code = 302
            /\ responses[1].location = FieldsAt(CallbackState.fields, stateParamsUrl)
            /\ responses[1].details = REDIRECT_RACE
            /\ responses[1].set_cookie = <<>>

\* a valid callback of a request with a valid session was redirected to its state's url
C21_Witness ==
  /\ RaceCallback
  /\ CallbackValid
  /\ ~StateUrlOnCallbackPath
  /\ responses[1].code = 302
  /\ responses[1].details = REDIRECT_RACE

\* an invalid callback of a request with a valid session was answered 401
C21_WitnessInvalid ==
  /\ RaceCallback
  /\ ~CallbackValid
  /\ IsUnauthorized(responses[1])

\* ---- the loop guard
\* a callback whose state decodes to a url on the callback path
LoopingCallback ==
  /\ Decoded /\ ~PassThrough /\ ~SignOutPath /\ OnCallbackPath
  /\ HasValue(CallbackQuery, queryParamsState)
  /\ CallbackState.ok
  /\ FieldsContain(CallbackState.fields, stateParamsUrl)
  /\ StateUrlOnCallbackPath

\* replies that redirect to the url of the state
RedirectsToStateUrl ==
  {i \in 1..Len(responses) :
     /\ responses[i].code = 302
     /\ responses[i].location = FieldsAt(CallbackState.fields, stateParamsUrl)}

\* C22 as stated: a callback whose state url (path and query) matches the redirect-path
\* matcher is answered 401, its session valid or not, and no 302 to that url is sent.
C22_AsStated ==
  LoopingCallback =>
    /\ RedirectsToStateUrl = {}
    /\ phase = "replied" => (Len(responses) = 1 /\ IsUnauthorized(responses[1]))

\* C22 as the code has it: the guard applies to a callback with a valid session; with an
\* invalid session a valid callback starts the token exchange, and its success redirects
\* to the state url although that is the callback path.
C22_LoopGuard ==
  LoopingCallback =>
    /\ Forwarded = FALSE
    /\ (SessionAccepted \/ ~CallbackValid) =>
         /\ RedirectsToStateUrl = {}
         /\ TokenExchanges = {}
         /\ phase = "replied" /\ Len(responses) = 1 /\ IsUnauthorized(responses[1])
    /\ (~SessionAccepted /\ CallbackValid) =>
         /\ TokenExchanges = {1}
         /\ RedirectsToStateUrl = IF ExchangeSucceeded THEN {1} ELSE {}
         /\ ExchangeFailed => IsUnauthorized(responses[1])

\* the loop guard answered a valid callback of a request with a valid session
C22_Witness ==
  /\ LoopingCallback
  /\ SessionAccepted
  /\ CallbackValid
  /\ IsUnauthorized(responses[1])

\* ---- the session cookies the filter emits
\* the filter has emitted a session: on the 302 of a token exchange, or on the upstream's
\* response after a refresh
SessionEmitted ==
  \/ ExchangeSucceeded /\ phase = "replied"
  \/ RefreshSucceeded /\ phase = "encoded"

EmittedCookies == IF ExchangeSucceeded THEN responses[1].set_cookie ELSE upstream_set_cookie

\* a request of the same host that carries the emitted cookies and no other
EmittedOnlyRequest ==
  [request EXCEPT
     !.cookie = [i \in 1..Len(EmittedCookies) |->
                   <<EmittedCookies[i].name, EmittedCookies[i].value>>]]

\* C23: when the disable_*_set_cookie flag of a token is set, the cookies emitted after a
\* token exchange or a refresh contain no cookie for that token and the emitted HMAC is
\* taken with that token's field empty, whatever the IdP returned; a request that carries
\* the emitted cookies, and so omits that token, is accepted by the validator while the
\* session has not expired.
C23_DisableFlags ==
  SessionEmitted =>
    /\ \A tc \in TokenCookies : tc[2] => SetCookiesNamed(EmittedCookies, tc[1]) = {}
    /\ {EmittedCookies[i].value :
          i \in SetCookiesNamed(EmittedCookies, cookie_names.oauth_hmac_)} = {AnsweredHmac}
    /\ trace.answer[2] > 0 =>
         isValid(setParams(NewValidator, EmittedOnlyRequest, secret),
                 config.cookie_domain_, now)

\* a token exchange whose answer held a token of a disabled cookie
C23_Witness ==
  /\ SessionEmitted
  /\ ExchangeSucceeded
  /\ config.disable_id_token_set_cookie_
  /\ trace.answer[1][2] # EMPTY_STRING
  /\ trace.answer[2] > 0
  /\ SetCookiesNamed(EmittedCookies, cookie_names.id_token_) = {}
  /\ SetCookiesNamed(EmittedCookies, cookie_names.bearer_token_) # {}

\* a refresh whose answer held a new refresh token while its cookie is disabled
C23_WitnessRefresh ==
  /\ SessionEmitted
  /\ RefreshSucceeded
  /\ config.disable_refresh_token_set_cookie_
  /\ trace.answer[1][3] # EMPTY_STRING
  /\ SetCookiesNamed(EmittedCookies, cookie_names.refresh_token_) = {}

\* ---- the emitted session as time passes
\* the ticks at which the emitted session is looked at: from its issue until well after
\* the longest lifetime an answer gives
LaterTimes == now..(now + 2 * TicksPerSecond)

\* the validator's verdict at tick t on a request carrying the emitted cookies unchanged
AcceptedAt(t) ==
  isValid(setParams(NewValidator, EmittedOnlyRequest, secret), config.cookie_domain_, t)

\* C24 as stated: the session issued at time t with expires_in = e is accepted at every
\* time strictly before t + e and rejected at every time at or after t + e.
C24_AsStated ==
  SessionEmitted =>
    \A t \in LaterTimes : AcceptedAt(t) <=> t < now + trace.answer[2] * TicksPerSecond

\* C24, amended: the session carries expires = (t truncated to whole seconds) + e; it is
\* accepted at every time strictly before that second and rejected at every time at or
\* after it; once rejected it is rejected at every later time, and with e = 0 it is never
\* accepted.
C24_SessionExpiry ==
  SessionEmitted =>
    /\ {EmittedCookies[i].value :
          i \in SetCookiesNamed(EmittedCookies, cookie_names.oauth_expires_)}
         = {to_string((now \div TicksPerSecond) + trace.answer[2])}
    /\ \A t \in LaterTimes :
         AcceptedAt(t) <=>
           t < ((now \div TicksPerSecond) + trace.answer[2]) * TicksPerSecond
    /\ \A t1, t2 \in LaterTimes : (t1 < t2 /\ ~AcceptedAt(t1)) => ~AcceptedAt(t2)
    /\ trace.answer[2] = 0 => \A t \in LaterTimes : ~AcceptedAt(t)

\* a session issued in the middle of a second, accepted at its issue and rejected before
\* its lifetime has passed
C24_Witness ==
  /\ SessionEmitted
  /\ now % TicksPerSecond # 0
  /\ trace.answer[2] = 1
  /\ AcceptedAt(now)
  /\ ~AcceptedAt(now + TicksPerSecond - 1)

\* ---- the two encodings of the session HMAC
\* the same HMAC in the other encoding: base64(raw) for base64(hex(raw)) and back
OtherEncoding(value) ==
  [i \in 1..Len(value) |->
     IF value[i][1] = "b64" THEN <<"b64hex", value[i][2], value[i][3]>>
     ELSE IF value[i][1] = "b64hex" THEN <<"b64", value[i][2], value[i][3]>>
     ELSE value[i]]

\* the request with its HMAC cookies in the other encoding, all else unchanged
ReencodedRequest ==
  [request EXCEPT !.cookie =
     [i \in 1..Len(request.cookie) |->
        IF request.cookie[i][1] = cookie_names.oauth_hmac_
        THEN <<request.cookie[i][1], OtherEncoding(request.cookie[i][2])>>
        ELSE request.cookie[i]]]

\* the HMAC cookie is the HMAC over the canonical payload as base64(hex(raw_hmac))
HexEncodedSession ==
  RequestCookie(cookie_names.oauth_hmac_) = <<(<<"b64hex", secret, SessionPayload>>)>>

UsesHexEncoding(value) == \E i \in 1..Len(value) : value[i][1] = "b64hex"

\* C25: the validator gives a session the same verdict whichever of the two encodings
\* its HMAC cookie is in, and no cookie the filter sets carries the base64(hex(raw_hmac))
\* encoding.
C25_HmacEncodings ==
  /\ trace.is_valid # "unset" =>
       (trace.is_valid = "true" <=>
          isValid(setParams(NewValidator, ReencodedRequest, secret), config.cookie_domain_,
                  decoded_at))
  /\ \A r \in 1..Len(responses) : \A i \in 1..Len(responses[r].set_cookie) :
       ~UsesHexEncoding(responses[r].set_cookie[i].value)
  /\ \A i \in 1..Len(upstream_set_cookie) : ~UsesHexEncoding(upstream_set_cookie[i].value)

\* a session in the older encoding was accepted and the request forwarded
C25_Witness == HexEncodedSession /\ trace.is_valid = "true" /\ Forwarded

\* a refresh set a new HMAC cookie, in the base64(raw_hmac) encoding
C25_WitnessEmitted ==
  /\ RefreshSucceeded
  /\ SessionEmitted
  /\ \E i \in SetCookiesNamed(EmittedCookies, cookie_names.oauth_hmac_) :
       EmittedCookies[i].value[1][1] = "b64"

\* ---- the lifetime of each session cookie
\* the exp claim of a token that is a JWT carrying one, in seconds; 0 otherwise
ExpClaim(token) ==
  IF Len(token) = 1 /\ token[1][1] = "jwt" /\ SimpleAtoi(token[1][3]) > 0
  THEN SimpleAtoi(token[1][3])
  ELSE 0

\* max(exp - now, 0), now in whole seconds
RemainingSeconds(exp) ==
  IF exp - (now \div TicksPerSecond) > 0 THEN exp - (now \div TicksPerSecond) ELSE 0

\* the Max-Age the policy gives the cookie `name` of the session the IdP's answer gives
PolicyMaxAge(name) ==
  IF name = cookie_names.id_token_
  THEN IF ExpClaim(trace.answer[1][2]) # 0 THEN RemainingSeconds(ExpClaim(trace.answer[1][2]))
       ELSE trace.answer[2]
  ELSE IF name = cookie_names.refresh_token_
  THEN IF ~config.use_refresh_token_ THEN trace.answer[2]
       ELSE IF ExpClaim(trace.answer[1][3]) # 0
            THEN RemainingSeconds(ExpClaim(trace.answer[1][3]))
       ELSE config.default_refresh_token_expires_in_
  ELSE trace.answer[2]

\* every Set-Cookie the filter has produced, in the responses and on the upstream response
AllSetCookies ==
  UNION {{responses[r].set_cookie[i] : i \in 1..Len(responses[r].set_cookie)} :
           r \in 1..Len(responses)}
  \cup {upstream_set_cookie[i] : i \in 1..Len(upstream_set_cookie)}

\* C26: each cookie of an emitted session carries the Max-Age of the per-cookie policy
\* (id token: max(exp - now, 0) for a JWT with exp, else expires_in; refresh token:
\* max(exp - now, 0) or the configured default under use_refresh_token, else expires_in;
\* hmac, expires and access token: expires_in), and no Set-Cookie carries a negative
\* Max-Age.
C26_MaxAgePolicy ==
  /\ SessionEmitted =>
       \A i \in 1..Len(EmittedCookies) :
         EmittedCookies[i].max_age = to_string(PolicyMaxAge(EmittedCookies[i].name))
  /\ \A c \in AllSetCookies : c.max_age # EMPTY_STRING => SimpleAtoi(c.max_age) >= 0

\* a login whose id token is a JWT still to expire and whose refresh token is a JWT
\* already expired: three different lifetimes in one session
C26_Witness ==
  /\ SessionEmitted
  /\ ExchangeSucceeded
  /\ config.use_refresh_token_
  /\ trace.answer[2] = 0
  /\ \E i \in SetCookiesNamed(EmittedCookies, cookie_names.id_token_) :
       /\ ExpClaim(trace.answer[1][2]) # 0
       /\ EmittedCookies[i].max_age = to_string(1)
  /\ \E i \in SetCookiesNamed(EmittedCookies, cookie_names.refresh_token_) :
       /\ ExpClaim(trace.answer[1][3]) # 0
       /\ EmittedCookies[i].max_age = to_string(0)

\* a refresh token that is not a JWT takes the configured default lifetime
C26_WitnessDefault ==
  /\ SessionEmitted
  /\ config.use_refresh_token_
  /\ \E i \in SetCookiesNamed(EmittedCookies, cookie_names.refresh_token_) :
       /\ ExpClaim(trace.answer[1][3]) = 0
       /\ EmittedCookies[i].max_age = to_string(config.default_refresh_token_expires_in_)
       /\ config.default_refresh_token_expires_in_ # trace.answer[2]

\* without use_refresh_token the refresh-token cookie takes expires_in, JWT or not
C26_WitnessNoRefresh ==
  /\ SessionEmitted
  /\ ~config.use_refresh_token_
  /\ \E i \in SetCookiesNamed(EmittedCookies, cookie_names.refresh_token_) :
       /\ ExpClaim(trace.answer[1][3]) # 0
       /\ EmittedCookies[i].max_age = to_string(trace.answer[2])

\* ---- the state parameter there and back
NeedsJsonEscaping(s) == \E i \in 1..Len(s) : s[i] \in {QUOTE, BSLASH, NL, NUL}

StateDecoded == codec.step = "decoded"

\* decoding gave back exactly the URL and the CSRF token that were encoded
RoundTripped ==
  /\ codec.decoded.ok
  /\ codec.decoded.url = codec.url
  /\ codec.decoded.csrf_token = codec.csrf_token

\* C27 as stated: for every valid absolute url and every csrf token, decoding
\* encodeState(url, csrf) yields exactly (url, csrf), also when both strings contain
\* characters that need JSON escaping.
C27_AsStated == StateDecoded => RoundTripped

\* C27, as far as it holds: decoding encodeState(url, csrf) yields exactly (url, csrf)
\* unless both strings contain characters that need JSON escaping.
C27_StateRoundTrip ==
  (StateDecoded /\ ~(NeedsJsonEscaping(codec.url) /\ NeedsJsonEscaping(codec.csrf_token)))
    => RoundTripped

\* a URL with a quote in it came back unchanged, next to a token as the filter mints it
C27_Witness ==
  /\ StateDecoded
  /\ NeedsJsonEscaping(codec.url)
  /\ codec.csrf_token = generateCsrfToken(CurrentSecret, Nonce1)
  /\ RoundTripped

\* a token with escaped characters came back unchanged, next to a plain URL
C27_WitnessToken ==
  /\ StateDecoded
  /\ ~NeedsJsonEscaping(codec.url)
  /\ NeedsJsonEscaping(codec.csrf_token)
  /\ RoundTripped

\* ---- the SameSite attribute of the nonce cookie
\* the attribute a SameSite setting stands for
SameSiteAttribute(setting) ==
  IF setting = "STRICT" THEN ";SameSite=Strict"
  ELSE IF setting = "LAX" THEN ";SameSite=Lax"
  ELSE IF setting = "NONE" THEN ";SameSite=None"
  ELSE ""

\* the nonce cookies set by the redirects to the IdP
MintedNonceCookies ==
  UNION {{responses[r].set_cookie[i] : i \in NonceCookiesOf(responses[r])} :
           r \in IdpRedirects}

\* C28 as stated: the nonce cookie emitted when redirecting to the IdP takes its SameSite
\* attribute from the refresh-token cookie configuration.
C28_AsStated ==
  \A c \in MintedNonceCookies :
    c.same_site = SameSiteAttribute(config.refresh_token_same_site_)

\* C28, amended: the nonce cookie emitted when redirecting to the IdP takes its SameSite
\* attribute from the dedicated nonce-cookie configuration, whatever the refresh-token
\* cookie configuration says.
C28_NonceSameSite ==
  \A c \in MintedNonceCookies :
    c.same_site = SameSiteAttribute(config.nonce_same_site_)

\* a redirect to the IdP set a nonce cookie while the two configurations differ
C28_Witness ==
  /\ MintedNonceCookies # {}
  /\ config.nonce_same_site_ # config.refresh_token_same_site_

\* ---- the calls on the IdP
IdpCallOps == {idp_calls[i].op : i \in 1..Len(idp_calls)}

\* C29: a request issues at most one IdP call, so never asyncRefreshAccessToken and
\* asyncGetAccessToken both nor either of them twice, and none at all when it is passed
\* through, is a sign-out or carries a valid session.
C29_AtMostOneIdpCall ==
  /\ Len(idp_calls) <= 1
  /\ IdpCallOps \subseteq {"asyncRefreshAccessToken", "asyncGetAccessToken"}
  /\ (Decoded /\ (PassThrough \/ SignOutPath \/ SessionAccepted)) => idp_calls = <<>>

\* the refresh failed and the filter went on to the redirect step: still the one call
C29_Witness ==
  /\ RefreshFailed
  /\ Len(responses) = 1
  /\ Len(idp_calls) = 1
  /\ IdpCallOps = {"asyncRefreshAccessToken"}

\* a valid callback arrived with a valid session: answered without a call
C29_WitnessValidSession ==
  /\ Decoded
  /\ ~PassThrough
  /\ ~SignOutPath
  /\ SessionAccepted
  /\ OnCallbackPath
  /\ trace.callback = "valid"
  /\ phase = "replied"
  /\ idp_calls = <<>>

\* the exchange completed: one asyncGetAccessToken, no other call
C29_WitnessExchange ==
  /\ ExchangeSucceeded
  /\ Len(idp_calls) = 1
  /\ IdpCallOps = {"asyncGetAccessToken"}

\* ---- the refresh token of a session that does not verify
\* the filter evaluated the session and found it invalid, off the callback path, with
\* use_refresh_token set and a refresh-token cookie in the request
UnverifiedRefreshable ==
  /\ Decoded
  /\ ~PassThrough
  /\ ~SignOutPath
  /\ ~OnCallbackPath
  /\ ~(HmacMatches /\ ExpiresAfter(decoded_at))
  /\ config.use_refresh_token_
  /\ RequestCookie(cookie_names.refresh_token_) # EMPTY_STRING

\* C30: whenever the session is invalid for any reason (expired, HMAC mismatch, missing
\* HMAC or expires cookie), use_refresh_token is set, the path is not the callback path
\* and the refresh-token cookie is not empty, the filter calls asyncRefreshAccessToken
\* with the value of that cookie, whether or not the HMAC cookie verifies.
C30_RefreshNotGatedByHmac ==
  UnverifiedRefreshable =>
    /\ Len(idp_calls) >= 1
    /\ idp_calls[1].op = "asyncRefreshAccessToken"
    /\ idp_calls[1].arg = RequestCookie(cookie_names.refresh_token_)

\* a session that has not expired but whose HMAC was made under another secret: its
\* refresh token went to the IdP
C30_Witness ==
  /\ UnverifiedRefreshable
  /\ ~HmacMatches
  /\ HasRequestCookie(cookie_names.oauth_hmac_)
  /\ ExpiresAfter(decoded_at)
  /\ phase = "paused_refresh"
  /\ idp_calls[1].arg = RequestCookie(cookie_names.refresh_token_)

\* no HMAC cookie and no expires cookie at all, only a refresh-token cookie
C30_WitnessBareToken ==
  /\ UnverifiedRefreshable
  /\ ~HasRequestCookie(cookie_names.oauth_hmac_)
  /\ ~HasRequestCookie(cookie_names.oauth_expires_)
  /\ phase = "paused_refresh"
  /\ idp_calls[1].arg = RequestCookie(cookie_names.refresh_token_)

\* ---- the rewritten Cookie header as a session
\* the payload a validator takes the HMAC over when it reads the Cookie header of the
\* resumed request
HeaderPayload ==
  (IF config.cookie_domain_ # EMPTY_STRING THEN config.cookie_domain_ ELSE request.host)
    \o <<NL>> \o HeaderCookie(cookie_names.oauth_expires_)
    \o <<NL>> \o HeaderCookie(cookie_names.bearer_token_)
    \o <<NL>> \o HeaderCookie(cookie_names.id_token_)
    \o <<NL>> \o HeaderCookie(cookie_names.refresh_token_)

\* the hmac cookie of the header is the HMAC recomputed over the cookies of the header,
\* and a validator given the header accepts it
HeaderIsSession ==
  /\ HeaderCookie(cookie_names.oauth_hmac_) = <<(<<"b64", secret, HeaderPayload>>)>>
  /\ hmacIsValid(setParams(NewValidator, headers, secret), config.cookie_domain_)

\* the token cookies of the request that the new session has no token for: the IdP
\* returned none, or the cookie is disabled
LeftoverTokenCookies ==
  {tc \in TokenCookies : SessionToken(tc) = EMPTY_STRING /\ HasRequestCookie(tc[1])}

\* C31 as stated: after refresh success the hmac cookie of the rewritten Cookie header
\* equals the HMAC recomputed over the expires and token cookies of the same header, also
\* when the IdP returned an empty token or a disable_*_set_cookie flag is set while the
\* old cookie of that token is still in the request.
C31_AsStated == RefreshSucceeded => HeaderIsSession

\* C31 as the code has it: the rewritten header is a session exactly when the request
\* held no cookie of a token that the IdP left empty or that is disabled.
C31_RewrittenHeaderIsSession ==
  RefreshSucceeded => (HeaderIsSession <=> LeftoverTokenCookies = {})

\* a refresh that answered all three tokens: the header verifies
C31_Witness ==
  /\ RefreshSucceeded
  /\ LeftoverTokenCookies = {}
  /\ HeaderIsSession
  /\ \A tc \in TokenCookies : HeaderCookie(tc[1]) = tc[3] /\ tc[3] # RequestCookie(tc[1])

\* a refresh under a disable flag, the old cookie still in the header: it does not verify
C31_WitnessLeftover ==
  /\ RefreshSucceeded
  /\ \E tc \in LeftoverTokenCookies : tc[2] /\ HeaderCookie(tc[1]) = RequestCookie(tc[1])
  /\ ~HeaderIsSession

\* ---- the request that follows a refresh
\* the user agent has sent its next request after a successful refresh; the refresh gave
\* the session a lifetime and every cookie set on the upstream's response can still be
\* sent
FollowedRefresh ==
  /\ previous.kind = "refresh"
  /\ previous.answer[2] > 0
  /\ \A i \in 1..Len(previous.set_cookie) : previous.set_cookie[i].max_age # Str("0")

\* the validator accepted the follow-up request and the filter passed it on, with no
\* call on the IdP
AcceptedWithoutRefresh ==
  /\ SessionAccepted
  /\ trace.is_valid = "true"
  /\ status = "Continue"
  /\ responses = <<>>
  /\ idp_calls = <<>>

\* C32 as stated: after a refresh success, the following request whose cookies are those
\* of the previous request updated by the Set-Cookie headers added to the upstream
\* response is accepted by the session validator while unexpired, and no other refresh is
\* issued for it.
C32_AsStated == FollowedRefresh => AcceptedWithoutRefresh

\* C32, for a refresh that leaves no stale token cookie behind
C32_RefreshEstablishesSession ==
  (FollowedRefresh /\ StaleTokenCookies = {}) => AcceptedWithoutRefresh

C32_Witness ==
  /\ FollowedRefresh
  /\ StaleTokenCookies = {}
  /\ AcceptedWithoutRefresh
  /\ RequestCookie(cookie_names.refresh_token_) = previous.answer[1][3]
  /\ RequestCookie(cookie_names.refresh_token_)
       # previous.request.cookie[CHOOSE i \in 1..Len(previous.request.cookie) :
           previous.request.cookie[i][1] = cookie_names.refresh_token_][2]

\* the refresh left the old refresh token behind and the follow-up is refreshed again,
\* with that token
C32_WitnessRefreshedAgain ==
  /\ FollowedRefresh
  /\ StaleTokenCookies # {}
  /\ phase = "paused_refresh"
  /\ Len(idp_calls) = 1
  /\ idp_calls[1].op = "asyncRefreshAccessToken"
  /\ idp_calls[1].arg = RequestCookie(cookie_names.refresh_token_)

\* ---- the counters of one request
Sent401s == {i \in 1..Len(responses) : responses[i].code = 401}

\* oauth_failure has moved by one for each 401 sent for this request, and by nothing else
FailureCountedPer401 ==
  stats.oauth_failure = stats0.oauth_failure + Cardinality(Sent401s)

SuccessCounted == stats.oauth_success > stats0.oauth_success
FailureCounted == stats.oauth_failure > stats0.oauth_failure

\* the request was answered with a 302 that leads back to the application
RedirectedToOriginalUrl ==
  /\ Len(responses) = 1
  /\ responses[1].code = 302
  /\ ~IsIdpRedirect(responses[1])

\* C33 as stated: oauth_failure is incremented exactly once for each 401 the filter
\* sends and never otherwise; no request increments both oauth_success and
\* oauth_failure; oauth_success is counted only for requests that end forwarded upstream
\* or redirected to the original URL.
C33_AsStated ==
  /\ FailureCountedPer401
  /\ ~(SuccessCounted /\ FailureCounted)
  /\ SuccessCounted => (Forwarded \/ RedirectedToOriginalUrl)

\* C33 as the code has it: oauth_failure counts the 401s; oauth_success moves by at most
\* one; both move for exactly the requests with a valid session on the callback path
\* that are answered 401 (callback not valid, or loop guard); every other request that
\* counts a success ends forwarded or redirected to the original URL.
C33_CounterConsistency ==
  /\ FailureCountedPer401
  /\ stats.oauth_success \in {stats0.oauth_success, stats0.oauth_success + 1}
  /\ (SuccessCounted /\ FailureCounted)
       <=> (RaceCallback /\ (~CallbackValid \/ StateUrlOnCallbackPath))
  /\ (SuccessCounted /\ ~FailureCounted) => (Forwarded \/ RedirectedToOriginalUrl)

\* a valid session on the callback path without a valid callback: 401, and both counters
\* moved
C33_Witness ==
  /\ RaceCallback
  /\ ~CallbackValid
  /\ Sent401s = {1}
  /\ SuccessCounted
  /\ FailureCounted
  /\ ~Forwarded

\* a failed exchange: one 401, one failure, no success
C33_WitnessFailure ==
  /\ ExchangeFailed
  /\ Sent401s = {1}
  /\ FailureCounted
  /\ ~SuccessCounted

\* ---- the nonce cookie that no longer verifies
\* the answer is a 401 with neither Location nor Set-Cookie, and the request was not
\* counted as sent to the IdP
PlainUnauthorized ==
  /\ phase = "replied"
  /\ Len(responses) = 1
  /\ IsUnauthorized(responses[1])
  /\ stats.oauth_unauthorized_rq = stats0.oauth_unauthorized_rq
  /\ ~Forwarded

\* the user agent repeats, with the same cookies, a request that was answered 401 at the
\* redirect step because its nonce cookie does not verify
RepeatedStaleNonce ==
  /\ previous.kind = "unauthorized"
  /\ previous.request = request
  /\ ~PassThrough /\ ~SignOutPath /\ ~OnCallbackPath
  /\ ~request.deny
  /\ StaleNonceCookie

\* the filter has finished with the request
Answered == phase \in {"replied", "forwarded", "encoded"}

\* the user agent's nonce cookie once it has taken in the Set-Cookie headers of the reply
NonceCookieAfterReply ==
  UserAgentCookie(request.cookie, responses[1].set_cookie, cookie_names.oauth_nonce_)

\* C34 as stated: a nonce cookie that fails HMAC validation at the redirect step gives a
\* 401 with no Set-Cookie and no Location, oauth_unauthorized_rq is not incremented, and
\* every repetition of the request with the same cookies under the same secret is again
\* answered 401.
C34_AsStated ==
  /\ (RedirectAttempted /\ StaleNonceCookie) => PlainUnauthorized
  /\ (RepeatedStaleNonce /\ Answered) => PlainUnauthorized

\* C34, amended: the 401 is as stated; a repetition with the same cookies is never
\* redirected to the IdP, and it is answered 401 again unless it carries a refresh token
\* that the IdP now accepts, in which case it is forwarded on the refreshed session; a
\* sign-out deletes the nonce cookie, and without a nonce cookie the redirect step starts
\* a login.
C34_StaleNonceSticky ==
  /\ (RedirectAttempted /\ StaleNonceCookie) => PlainUnauthorized
  /\ RepeatedStaleNonce =>
       /\ IdpRedirects = {}
       /\ TokenExchanges = {}
       /\ (Answered /\ ~RefreshSucceeded) => PlainUnauthorized
       /\ RefreshSucceeded => (Forwarded /\ responses = <<>>)
       /\ RefreshSucceeded =>
            (config.use_refresh_token_
               /\ RequestCookie(cookie_names.refresh_token_) # EMPTY_STRING)
  /\ (SignedOut /\ HasRequestCookie(cookie_names.oauth_nonce_)) =>
       (DeletionsOf(cookie_names.oauth_nonce_) # {} /\ NonceCookieAfterReply = <<>>)
  /\ (RedirectAttempted /\ ~HasRequestCookie(cookie_names.oauth_nonce_)) =>
       (Len(responses) = 1 /\ IsIdpRedirect(responses[1])
          /\ NonceCookiesOf(responses[1]) # {})

\* the repetition of a request with a stale nonce cookie, at a later time, answered 401
\* again
C34_Witness ==
  /\ RepeatedStaleNonce
  /\ idp_calls = <<>>
  /\ decoded_at > TicksPerSecond
  /\ PlainUnauthorized

\* the repetition carried a refresh token that the IdP accepted this time: forwarded
C34_WitnessRefreshed ==
  /\ RepeatedStaleNonce
  /\ RefreshSucceeded
  /\ Forwarded

\* a sign-out with a stale nonce cookie: the cookie is deleted
C34_WitnessSignOut ==
  /\ SignedOut
  /\ StaleNonceCookie
  /\ NonceCookieAfterReply = <<>>

====
